---- MODULE Spec2Model ----
(***************************************************************************)
(* Model of the GreyM protector core:                                      *)
(*   - the recursive disassembly engine (pe_disassembly_engine.cpp),       *)
(*   - the protector orchestrator, its fixup list and the relocation       *)
(*     rebuilder (protector.cpp).                                          *)
(*                                                                         *)
(* 32-bit quantities whose wrap-around matters are kept as pairs           *)
(* <<hi, lo>> of 16-bit halves, so that arithmetic is exactly modulo 2^32. *)
(***************************************************************************)
EXTENDS Integers, Sequences, FiniteSets, TLC

\* ------------------------------------------------------------------------
\* 32-bit words
\* ------------------------------------------------------------------------
Half == 256 * 256

NatToW(n) == <<n \div Half, n % Half>>

WAdd(a, b) ==
  LET lo == a[2] + b[2]
      hi == a[1] + b[1] + (lo \div Half)
  IN  <<hi % Half, lo % Half>>

WSub(a, b) ==
  LET lo == a[2] - b[2]
      hi == a[1] - b[1] - (IF lo < 0 THEN 1 ELSE 0)
  IN  <<(hi + Half) % Half, (lo + Half) % Half>>

WLt(a, b) == a[1] < b[1] \/ (a[1] = b[1] /\ a[2] < b[2])

WLe(a, b) == a = b \/ WLt(a, b)

\* little-endian bytes of a word, and back
WBytes(w) == <<w[2] % 256, w[2] \div 256, w[1] % 256, w[1] \div 256>>

BytesW(b) == <<b[3] + 256 * b[4], b[1] + 256 * b[2]>>

\* 64-bit value as <<low word, high word>>
QAdd(q, w) ==
  LET lo    == q[1][2] + w[2]
      hi    == q[1][1] + w[1] + (lo \div Half)
      carry == hi \div Half
  IN  <<(<<hi % Half, lo % Half>>), WAdd(q[2], NatToW(carry))>>

QSub(q, w) ==
  LET borrow == IF WLt(q[1], w) THEN 1 ELSE 0
  IN  <<WSub(q[1], w), WSub(q[2], NatToW(borrow))>>

WZero == <<0, 0>>

\* the number a word stands for (for words below 2^31)
WToNat(w) == w[1] * Half + w[2]

\* 4 bytes of a byte sequence at 0-based offset o
ReadU32(bytes, o) == BytesW(<<bytes[o + 1], bytes[o + 2], bytes[o + 3], bytes[o + 4]>>)

WriteU32(bytes, o, w) ==
  [k \in 1..Len(bytes) |->
     IF k > o /\ k <= o + 4 THEN WBytes(w)[k - o] ELSE bytes[k]]

\* ------------------------------------------------------------------------
\* Sequence helpers
\* ------------------------------------------------------------------------
Range(s) == {s[k] : k \in 1..Len(s)}

RECURSIVE SetToSortedSeq(_)
SetToSortedSeq(S) ==
  IF S = {} THEN <<>>
  ELSE LET m == CHOOSE x \in S : \A y \in S : x <= y
       IN  <<m>> \o SetToSortedSeq(S \ {m})

\* ------------------------------------------------------------------------
\* State
\* ------------------------------------------------------------------------
VARIABLES
  win64,                      \* build-time bitness (_WIN64)
  pc,                         \* position of the protector run
  \* --- input PE (the engine works on its own copy of it)
  pe_image_base_,             \* OptionalHeader.ImageBase, a word
  text_code,                  \* original .text bytes, index 1 = section offset 0
  program,                    \* what the decoder yields at each .text offset
  original_pe_relocs,         \* relocation blocks of the source PE
  original_pe_image,          \* headers and .rdata of the source PE: 32-bit
                              \* cells by file offset
  \* --- PeDisassemblyEngine
  address_,                   \* rva of the next decode
  code_,                      \* code pointer of the next decode (.text offset)
  disassembly_points_,        \* work list (LIFO)
  disassembly_points_cache_,  \* dedup cache of rvas
  data_ranges_,               \* AddressRange list
  stream_,                    \* instructions decoded since the last pop
  \* --- ProtectorContext / FixupContext
  new_text_section,           \* bytes of the writable .text clone
  vm_loader_section,          \* [size, cells]
  virtualized_code_section,   \* [size, cells]
  fixups,
  relocation_rvas_to_remove,
  vm_section_offsets_to_add_to_relocation_table,
  virtualized_code_section_offsets_to_add_to_relocation_table,
  \* --- assembled output
  reloc_section,              \* [blocks, size, dir_size] of the new .reloc
  new_pe,                     \* the finished image, or NoPe
  \* --- run log (file_log::Info / printf lines of the callbacks)
  virtualized_log,
  reset_log

inputVars == <<win64, pe_image_base_, text_code, program>>

peVars == <<original_pe_relocs, original_pe_image>>

engineVars == <<address_, code_, disassembly_points_,
                disassembly_points_cache_, data_ranges_, stream_>>

contextVars == <<new_text_section, vm_loader_section,
                 virtualized_code_section, fixups, relocation_rvas_to_remove,
                 vm_section_offsets_to_add_to_relocation_table,
                 virtualized_code_section_offsets_to_add_to_relocation_table>>

outputVars == <<reloc_section, new_pe>>

logVars == <<virtualized_log, reset_log>>

vars == <<pc, inputVars, peVars, engineVars, contextVars,
          outputVars, logVars>>

NoPe == [built |-> FALSE]

\* constexpr auto k4kPage = 1 << 12
k4kPage == 4096

\* ------------------------------------------------------------------------
\* Section layout of the images the model runs on
\* ------------------------------------------------------------------------
\* .text of the input: VirtualAddress and size in bytes
TextVA == k4kPage

TextSize == Len(text_code)

\* section::IsRvaWithinSection on .text, for an rva given as a word
IsRvaWithinTextW(w) ==
  /\ WLe(NatToW(TextVA), w)
  /\ WLt(w, NatToW(TextVA + TextSize))

\* section::RvaToSectionOffset on .text
RvaToTextOffset(rva) == rva - TextVA

\* .reloc of the input is its last section
RelocVA == 3 * k4kPage

\* OptionalHeader.SectionAlignment of the images: the usual 4K page
SectionAlignment == k4kPage

AlignUp(v, a) == ((v + a - 1) \div a) * a

\* peutils::AlignDown
AlignDown(v, a) == v - (v % a)

\* ------------------------------------------------------------------------
\* Instructions as the decoder yields them (cs_insn with detail)
\* ------------------------------------------------------------------------
NoOperand ==
  [type |-> "INVALID", reg |-> "INVALID", imm |-> WZero,
   base |-> "INVALID", index |-> "INVALID", scale |-> 0, disp |-> WZero]

RegOp(r) == [NoOperand EXCEPT !.type = "REG", !.reg = r]

ImmOp(w) == [NoOperand EXCEPT !.type = "IMM", !.imm = w]

MemOp(b, x, sc, d) ==
  [NoOperand EXCEPT !.type = "MEM", !.base = b, !.index = x, !.scale = sc,
                    !.disp = d]

InvalidInstruction ==
  [id |-> "INVALID", size |-> 1, ops |-> <<>>, eflags |-> 0,
   virtualizable |-> FALSE, vm_size |-> 0]

Ins(id, size, ops) ==
  [id |-> id, size |-> size, ops |-> ops, eflags |-> 0,
   virtualizable |-> FALSE, vm_size |-> 0]

\* cs_disasm_iter at a code pointer (a .text offset) with the address rva:
\* the instruction record, with its address
DecodeAt(code, rva) ==
  IF code >= 0 /\ code < Len(program)
  THEN [ins |-> program[code + 1], address |-> rva, code |-> code]
  ELSE [ins |-> InvalidInstruction, address |-> rva, code |-> code]

\* cs_insn_group
IsRet(i) == i.ins.id = "RET"

IsInterrupt(i) == i.ins.id = "INT3"

IsJump(i) == i.ins.id \in {"JMP", "LJMP", "JCC"}

IsCall(i) == i.ins.id \in {"CALL", "LCALL"}

IsGuaranteedJump(i) == i.ins.id = "JMP" \/ i.ins.id = "LJMP"

OpCount(i) == Len(i.ins.ops)

\* detail->x86.operands[k] of a fixed array: reading past op_count yields an
\* empty operand
Operand(i, k) == IF k <= Len(i.ins.ops) THEN i.ins.ops[k] ELSE NoOperand

\* GetOperandRva: x64 takes the value as the rva, x86 subtracts the image base
GetOperandRva(operand) ==
  LET v == IF operand.type = "IMM" THEN operand.imm ELSE operand.disp
  IN  IF win64 THEN v ELSE WSub(v, pe_image_base_)

\* the sections of the input image: .text and .reloc
FromRvaIsNull(w) ==
  ~ \/ IsRvaWithinTextW(w)
    \/ (WLe(NatToW(RelocVA), w) /\ WLt(w, NatToW(RelocVA + k4kPage)))

\* ------------------------------------------------------------------------
\* PeDisassemblyEngine: work list, jump tables
\* ------------------------------------------------------------------------
\* the push without the look into the cache
AddDisassemblyPointNoCache(es, point) ==
  [es EXCEPT !.points = Append(@, point), !.cache = @ \cup {point.rva}]

\* es = [points, cache, ranges, code, address, fault, overflow]:
\* disassembly_points_, disassembly_points_cache_, data_ranges_, code_,
\* address_, whether a read left the decoding buffer, and whether a
\* recursion did not come to an end
AddDisassemblyPoint(es, point) ==
  IF point.rva \in es.cache THEN es
  ELSE [es EXCEPT !.points = Append(@, point), !.cache = @ \cup {point.rva}]

\* GetOperandDestinationValueDisassasemblyPoint: for a MOV the code pointer
\* comes from the file offset of the rva, otherwise from the distance to the
\* instruction; both as .text offsets (words, modulo 2^32)
GetOperandDestinationValueDisassasemblyPoint(i, instruction_code_ptr, rva) ==
  IF i.ins.id = "MOV"
  THEN [rva |-> rva, code |-> WSub(rva, NatToW(TextVA))]
  ELSE [rva |-> rva,
        code |-> WAdd(NatToW(instruction_code_ptr),
                      WSub(rva, NatToW(i.address)))]

\* did we reach the end?  (line 284)
IsStopValue(item_dest_va) ==
  item_dest_va = <<52428, 52428>> \/ item_dest_va = WZero

\* the loop without the stop at an entry outside .text
RECURSIVE ParseJumpTableLoopPastSection(_, _, _, _, _)
ParseJumpTableLoopPastSection(i, operand, operand_rva, n, es) ==
  LET table == GetOperandDestinationValueDisassasemblyPoint(
                 i, i.code, operand_rva)
      at    == WAdd(table.code, NatToW(n))
  IN  IF FromRvaIsNull(table.rva)
      THEN [es |-> es, i |-> n]
      ELSE IF ~ (Len(text_code) >= 4 /\ WLe(at, NatToW(Len(text_code) - 4)))
      THEN [es |-> [es EXCEPT !.fault = TRUE], i |-> n]
      ELSE
        LET item_dest_va  == ReadU32(text_code, WToNat(at))
            item_dest_rva == IF win64 THEN item_dest_va
                             ELSE WSub(item_dest_va, pe_image_base_)
        IN  IF IsStopValue(item_dest_va)
            THEN [es |-> es, i |-> n]
            ELSE ParseJumpTableLoopPastSection(
                   i, operand, operand_rva, n + operand.scale,
                   AddDisassemblyPoint(es,
                     [rva  |-> item_dest_rva,
                      code |-> WAdd(NatToW(i.code),
                                    WSub(item_dest_rva, NatToW(i.address)))]))

\* the loop of ParseJumpTable from byte index n on: the engine state and the
\* final i.  The table is read through its code pointer; a slot that is not
\* inside the decoding buffer is an out-of-bounds read.
RECURSIVE ParseJumpTableLoop(_, _, _, _, _)
ParseJumpTableLoop(i, operand, operand_rva, n, es) ==
  LET table == GetOperandDestinationValueDisassasemblyPoint(
                 i, i.code, operand_rva)
      at    == WAdd(table.code, NatToW(n))
  IN  IF FromRvaIsNull(table.rva)
      THEN [es |-> es, i |-> n]
      ELSE IF ~ (Len(text_code) >= 4 /\ WLe(at, NatToW(Len(text_code) - 4)))
      THEN [es |-> [es EXCEPT !.fault = TRUE], i |-> n]
      ELSE
        LET item_dest_va  == ReadU32(text_code, WToNat(at))
            item_dest_rva == IF win64 THEN item_dest_va
                             ELSE WSub(item_dest_va, pe_image_base_)
        IN  IF IsStopValue(item_dest_va)
            THEN [es |-> es, i |-> n]
            ELSE IF ~ IsRvaWithinTextW(item_dest_rva)
            THEN [es |-> es, i |-> n]
            ELSE ParseJumpTableLoop(i, operand, operand_rva, n + operand.scale,
                   AddDisassemblyPoint(es,
                     [rva  |-> item_dest_rva,
                      code |-> WAdd(NatToW(i.code),
                                    WSub(item_dest_rva, NatToW(i.address)))]))

\* the parse with a range that takes the stopping slot in
ParseJumpTableWithStopSlot(i, operand, es) ==
  LET operand_rva == GetOperandRva(operand)
      r == ParseJumpTableLoop(i, operand, operand_rva, 0, es)
  IN  [r.es EXCEPT !.ranges =
         Append(@, [begin_address |-> operand_rva,
                    end_address   |-> WAdd(operand_rva,
                                           NatToW(r.i + operand.scale))])]

ParseJumpTable(i, operand, es) ==
  LET operand_rva == GetOperandRva(operand)
      r == ParseJumpTableLoop(i, operand, operand_rva, 0, es)
  IN  [r.es EXCEPT !.ranges =
         Append(@, [begin_address |-> operand_rva,
                    end_address   |-> WAdd(operand_rva, NatToW(r.i))])]

\* IsAddressWithinDataSectionOfCode, for an address inside .text
IsAddressWithinDataSectionOfCode(ranges, address) ==
  \E k \in 1..Len(ranges) :
    /\ WLe(ranges[k].begin_address, NatToW(address))
    /\ WLt(NatToW(address), ranges[k].end_address)

\* ------------------------------------------------------------------------
\* PeDisassemblyEngine: heuristics
\* ------------------------------------------------------------------------
IsJumpTableX86(i, operand) ==
  /\ IsGuaranteedJump(i) \/ i.ins.id = "MOV"
  /\ operand.type = "MEM"
  /\ operand.scale = 4
  /\ IsRvaWithinTextW(GetOperandRva(operand))

\* the two instructions behind the MOV are decoded from a copy of the code
\* pointer; a failed decode leaves the previous content of the record
IsJumpTableX64(i, operand1, operand2) ==
  /\ i.ins.id = "MOV"
  /\ operand1.type = "REG"
  /\ operand2.type = "MEM"
  /\ operand2.scale = 4
  /\ LET d1 == DecodeAt(i.code + i.ins.size, i.address + i.ins.size)
         d2 == DecodeAt(d1.code + d1.ins.size, d1.address + d1.ins.size)
         i2 == IF d2.ins.id = "INVALID" THEN d1 ELSE d2
     IN  /\ d1.ins.id = "ADD"
         /\ OpCount(d1) = 2
         /\ Operand(d1, 1).type = "REG"
         /\ Operand(d1, 2).type = "REG"
         /\ IsGuaranteedJump(i2)
         /\ Operand(i2, 1).type = "REG"
         /\ Operand(i2, 1).reg = Operand(d1, 1).reg

\* a look-ahead that decodes with the engine's own code pointer and address
LookAheadOnStream(es, code, rva) ==
  [es EXCEPT !.code = NatToW(code), !.address = NatToW(rva)]

\* the look-ahead of a heuristic decodes with copies of the code pointer
\* and the address (code_copy, rva_copy; the arguments of cs_disasm): where
\* it ends, at code and rva, is lost when the heuristic returns
LookAhead(es, code, rva) == es

\* IsJumpTableX64 decodes up to two instructions behind a
\* MOV reg, [.. + index*4 + ..]: the first one, and the second one if the
\* first is ADD reg, reg
JumpTableLookAhead(i, es) ==
  IF /\ win64
     /\ i.ins.id = "MOV" /\ OpCount(i) = 2
     /\ Operand(i, 1).type = "REG"
     /\ Operand(i, 2).type = "MEM" /\ Operand(i, 2).scale = 4
  THEN LET d1 == DecodeAt(i.code + i.ins.size, i.address + i.ins.size)
           d2 == DecodeAt(d1.code + d1.ins.size, d1.address + d1.ins.size)
       IN  IF d1.ins.id = "INVALID"
           THEN LookAhead(es, d1.code, d1.address)
           ELSE IF \/ d1.ins.id # "ADD" \/ OpCount(d1) # 2
                   \/ Operand(d1, 1).type # "REG"
                   \/ Operand(d1, 2).type # "REG"
                   \/ d2.ins.id = "INVALID"
           THEN LookAhead(es, d2.code, d2.address)
           ELSE LookAhead(es, d2.code + d2.ins.size,
                          d2.address + d2.ins.size)
  ELSE es

IsJumpTable(i) ==
  IF win64
  THEN OpCount(i) = 2 /\ IsJumpTableX64(i, Operand(i, 1), Operand(i, 2))
  ELSE OpCount(i) = 1 /\ IsJumpTableX86(i, Operand(i, 1))

\* the test without the look at the first operand
IsImmediateIntoSection(operand1, operand2) ==
  /\ operand2.type = "IMM"
  /\ ~ FromRvaIsNull(GetOperandRva(operand2))

IsVTableOrFunction(operand1, operand2) ==
  /\ operand1.type = "MEM"
  /\ operand2.type = "IMM"
  /\ ~ FromRvaIsNull(GetOperandRva(operand2))

\* the recursion of IsFunctionX86 stops behind 10 followed jumps
kMaxJumpRecursion == 10

\* IsFunctionX86 at a code pointer inside .text
RECURSIVE IsFunctionX86(_, _, _)
IsFunctionX86(code, rva, recursion_counter) ==
  IF recursion_counter > kMaxJumpRecursion THEN FALSE
  ELSE
    LET d1 == DecodeAt(code, rva)
        d2 == DecodeAt(d1.code + d1.ins.size, d1.address + d1.ins.size)
        d3 == DecodeAt(d2.code + d2.ins.size, d2.address + d2.ins.size)
    IN  IF d1.ins.id = "INVALID" \/ d2.ins.id = "INVALID"
           \/ d3.ins.id = "INVALID"
        THEN FALSE
        ELSE IF IsGuaranteedJump(d1)
        THEN LET target == Operand(d1, 1).imm
             IN  IF ~ IsRvaWithinTextW(target) THEN FALSE
                 ELSE IsFunctionX86(code + (WToNat(target) - d1.address),
                                    WToNat(target), recursion_counter + 1)
        ELSE
          LET pad == /\ d1.ins.id = "MOV"
                     /\ OpCount(d1) = 2
                     /\ Operand(d1, 1).reg = "EDI"
                     /\ Operand(d1, 2).reg = "EDI"
              instruction1 == IF pad THEN d2 ELSE d1
              instruction2 == IF pad THEN d3 ELSE d2
          IN  /\ OpCount(instruction1) = 1
              /\ instruction1.ins.id = "PUSH"
              /\ Operand(instruction1, 1).reg = "EBP"
              /\ instruction2.ins.id = "MOV"
              /\ OpCount(instruction2) = 2
              /\ Operand(instruction2, 1).reg = "EBP"
              /\ Operand(instruction2, 2).reg = "ESP"

\* is mov [rsp + ?], reg
IsMovRspPlusDispReg(d) ==
  /\ d.ins.id = "MOV"
  /\ OpCount(d) = 2
  /\ Operand(d, 1).type = "MEM"
  /\ Operand(d, 1).base = "RSP"
  /\ Operand(d, 2).type = "REG"

\* the first k instructions from d on all decode and satisfy P; the result is
\* the decode position behind them, or "fail"
RECURSIVE MovRun(_, _)
MovRun(d, k) ==
  IF k = 0 THEN [ok |-> TRUE, next |-> d]
  ELSE LET n == DecodeAt(d.code + d.ins.size, d.address + d.ins.size)
       IN  IF n.ins.id = "INVALID" \/ ~ IsMovRspPlusDispReg(n)
           THEN [ok |-> FALSE, next |-> n]
           ELSE MovRun(n, k - 1)

IsSubRspImm(d) ==
  /\ d.ins.id = "SUB"
  /\ OpCount(d) = 2
  /\ Operand(d, 1).type = "REG"
  /\ Operand(d, 1).reg = "RSP"
  /\ Operand(d, 2).type = "IMM"

\* limit on 10 instructions
kSubSearchLimit == 10

RECURSIVE SubSearch(_, _)
SubSearch(d, k) ==
  IF k = 0 THEN FALSE
  ELSE LET n == DecodeAt(d.code + d.ins.size, d.address + d.ins.size)
       IN  IF n.ins.id = "INVALID" THEN FALSE
           ELSE IF IsSubRspImm(n) THEN TRUE
           ELSE SubSearch(n, k - 1)

\* how many jumps the model follows in IsFunctionX64 before it reports that
\* the recursion does not end
MaxFollow == 12

\* IsFunctionX64: "yes", "no", or "diverges" (unbounded recursion)
RECURSIVE IsFunctionX64(_, _, _)
IsFunctionX64(code, rva, followed) ==
  LET d == DecodeAt(code, rva)
  IN  IF d.ins.id = "INVALID" THEN "no"
      ELSE IF IsGuaranteedJump(d)
      THEN LET target == Operand(d, 1).imm
           IN  IF ~ IsRvaWithinTextW(target) THEN "no"
               ELSE IF followed >= MaxFollow THEN "diverges"
               ELSE IsFunctionX64(code + (WToNat(target) - d.address),
                                  WToNat(target), followed + 1)
      ELSE IF ~ IsMovRspPlusDispReg(d) THEN "no"
      ELSE LET op1_value == WToNat(Operand(d, 1).disp)
           IN  IF op1_value % 8 # 0 THEN "no"
               ELSE LET run == MovRun(d, (op1_value \div 8) - 1)
                    IN  IF ~ run.ok THEN "no"
                        ELSE IF SubSearch(run.next, kSubSearchLimit)
                        THEN "yes" ELSE "no"

IsFunction(code, rva) ==
  IF win64 THEN IsFunctionX64(code, rva, 0)
  ELSE IF IsFunctionX86(code, rva, 0) THEN "yes" ELSE "no"

\* ------------------------------------------------------------------------
\* PeDisassemblyEngine::ParseInstruction
\* ------------------------------------------------------------------------
\* the result: the engine state and the DisassemblyAction
Act(es, action) == [es |-> es, action |-> action]

\* the branch that never ends the stream, and the one that always does
AfterBranchContinue(i, es) == Act(es, "NextInstruction")

AfterBranchEnd(i, es) == Act(es, "NextDisassemblyPoint")

AfterBranch(i, es) ==
  IF IsGuaranteedJump(i) THEN Act(es, "NextDisassemblyPoint")
  ELSE Act(es, "NextInstruction")

\* a candidate function target inside .text is enqueued when IsFunction
\* accepts it
AddIfFunction(i, es, rva) ==
  LET dest == GetOperandDestinationValueDisassasemblyPoint(i, i.code, rva)
      isf  == IsFunction(WToNat(dest.code), WToNat(dest.rva))
      la   == LookAhead(es, WToNat(dest.code), WToNat(dest.rva))
  IN  IF isf = "yes" THEN AddDisassemblyPoint(la, dest)
      ELSE IF isf = "diverges" THEN [la EXCEPT !.overflow = TRUE]
      ELSE la

ParseInstruction(i, es) ==
  IF IsRet(i) THEN Act(es, "NextDisassemblyPoint")
  ELSE IF IsCall(i) \/ IsJump(i)
  THEN IF OpCount(i) = 1
       THEN IF Operand(i, 1).type = "IMM"
            THEN AfterBranch(i,
                   AddDisassemblyPoint(es,
                     [rva  |-> Operand(i, 1).imm,
                      code |-> WAdd(NatToW(i.code),
                                    WSub(Operand(i, 1).imm,
                                         NatToW(i.address)))]))
            ELSE IF IsJumpTable(i)
            THEN Act(ParseJumpTable(i, Operand(i, 1), es),
                     "NextDisassemblyPoint")
            ELSE AfterBranch(i, es)
       ELSE Act(es, "NextDisassemblyPoint")
  ELSE IF IsInterrupt(i) THEN Act(es, "NextDisassemblyPoint")
  ELSE IF i.ins.id = "MOV" /\ OpCount(i) = 2
  THEN IF IsJumpTable(i)
       THEN Act(ParseJumpTable(i, Operand(i, 2), JumpTableLookAhead(i, es)),
                "NextDisassemblyPoint")
       ELSE IF /\ IsVTableOrFunction(Operand(i, 1), Operand(i, 2))
               /\ IsRvaWithinTextW(GetOperandRva(Operand(i, 2)))
       THEN Act(AddIfFunction(i, JumpTableLookAhead(i, es),
                              GetOperandRva(Operand(i, 2))),
                "NextInstruction")
       ELSE Act(JumpTableLookAhead(i, es), "NextInstruction")
  ELSE IF /\ i.ins.id = "PUSH"
          /\ Operand(i, 1).type = "IMM"
          /\ IsRvaWithinTextW(GetOperandRva(Operand(i, 1)))
  THEN Act(AddIfFunction(i, es, GetOperandRva(Operand(i, 1))),
           "NextInstruction")
  ELSE Act(es, "NextInstruction")

ContinueFromRedirectionInstructions(es) ==
  IF Len(es.points) = 0
  THEN [more |-> FALSE, es |-> es, point |-> [rva |-> WZero, code |-> WZero]]
  ELSE [more  |-> TRUE,
        es    |-> [es EXCEPT !.points = SubSeq(@, 1, Len(@) - 1)],
        point |-> es.points[Len(es.points)]]

\* ------------------------------------------------------------------------
\* Relocation rebuilder (protector.cpp)
\* ------------------------------------------------------------------------
PadRelocation == [type |-> "ABSOLUTE", offset |-> 0]

BlockBytes(block) == 8 + 2 * Len(block.relocs)

CreateRelocationBlockBuffer(virtual_address, relocations) ==
  [VirtualAddress |-> NatToW(virtual_address),
   SizeOfBlock    |-> NatToW(8 + Len(relocations) * 2),
   relocs         |-> relocations]

DetermineFirstRelocationBlockVirtualAddress(offsets, highest_reloc_offset) ==
  AlignDown(offsets[1], highest_reloc_offset)

\* erase everything behind the relocation directory's Size
TrimRelocSectionPadding(rs) == [rs EXCEPT !.size = rs.dir_size]

\* the bytes go in front of the section data
AppendCodeInFront(section_size, byte_count) ==
  [offset |-> 0, size |-> section_size + byte_count]

\* Section::AppendCode: the bytes go to the current end of the section data;
\* the result is the offset of their first byte
AppendCode(section_size, byte_count) ==
  [offset |-> section_size, size |-> section_size + byte_count]

\* the append without the padding entry
AppendRelocationBlockNoPad(reloc_block_virtual_address, relocations, rs) ==
  LET block == CreateRelocationBlockBuffer(reloc_block_virtual_address,
                                           relocations)
      app   == AppendCode(rs.size, BlockBytes(block))
  IN  [rs |-> [blocks   |-> Append(rs.blocks,
                                   [at    |-> app.offset,
                                    added |-> TRUE,
                                    VirtualAddress |-> block.VirtualAddress,
                                    SizeOfBlock    |-> block.SizeOfBlock,
                                    relocs         |-> block.relocs]),
               size     |-> app.size,
               dir_size |-> rs.dir_size + BlockBytes(block)],
       dest_offset |-> app.offset]

\* the append that adds the length without the padding entry to the
\* directory's Size
AppendRelocationBlockBare(reloc_block_virtual_address, relocations, rs) ==
  LET r == AppendRelocationBlockNoPad(reloc_block_virtual_address,
             IF Len(relocations) % 2 # 0
             THEN Append(relocations, PadRelocation)
             ELSE relocations, rs)
  IN  [r EXCEPT !.rs.dir_size = rs.dir_size + 8 + 2 * Len(relocations)]

AppendRelocationBlock(reloc_block_virtual_address, relocations, rs) ==
  LET padded == IF Len(relocations) % 2 # 0
                THEN Append(relocations, PadRelocation)
                ELSE relocations
      block  == CreateRelocationBlockBuffer(reloc_block_virtual_address,
                                            padded)
      app    == AppendCode(rs.size, BlockBytes(block))
  IN  [rs |-> [blocks   |-> Append(rs.blocks,
                                   [at    |-> app.offset,
                                    added |-> TRUE,
                                    VirtualAddress |-> block.VirtualAddress,
                                    SizeOfBlock    |-> block.SizeOfBlock,
                                    relocs         |-> block.relocs]),
               size     |-> app.size,
               dir_size |-> rs.dir_size + BlockBytes(block)],
       dest_offset |-> app.offset]

RelocationType == IF win64 THEN "DIR64" ELSE "HIGHLOW"

\* the comparison with > in place of >=
FlushNeededGt(offset, block_va) == offset < block_va \/ offset - block_va > k4kPage

\* the comparison of line 610 on the unsigned difference offset - block va
FlushNeeded(offset, block_va) == offset < block_va \/ offset - block_va >= k4kPage

\* the loop of AddRelocations over the offsets k..Len(offsets);
\* acc = [rs, fixups, block_va, new_relocations]
RECURSIVE AddRelocationsLoop(_, _, _, _)
AddRelocationsLoop(fixup_desc, offsets, k, acc) ==
  IF k > Len(offsets)
  THEN IF Len(acc.new_relocations) > 0
       THEN LET r == AppendRelocationBlock(acc.block_va, acc.new_relocations,
                                           acc.rs)
            IN  [rs     |-> r.rs,
                 fixups |-> Append(acc.fixups,
                                   [offset |-> r.dest_offset,
                                    desc   |-> fixup_desc])]
       ELSE [rs |-> acc.rs, fixups |-> acc.fixups]
  ELSE
    LET o == offsets[k]
        \* Relocation.offset is a 12 bit field
        first_offset == (o - acc.block_va) % k4kPage
    IN  IF FlushNeeded(o, acc.block_va)
        THEN LET r      == AppendRelocationBlock(acc.block_va,
                                                 acc.new_relocations, acc.rs)
                 new_va == AlignDown(o, k4kPage)
             IN  AddRelocationsLoop(fixup_desc, offsets, k + 1,
                   [rs       |-> r.rs,
                    fixups   |-> Append(acc.fixups,
                                        [offset |-> r.dest_offset,
                                         desc   |-> fixup_desc]),
                    block_va |-> new_va,
                    new_relocations |->
                      <<[type |-> RelocationType, offset |-> o - new_va]>>])
        ELSE AddRelocationsLoop(fixup_desc, offsets, k + 1,
               [acc EXCEPT !.new_relocations =
                  Append(@, [type |-> RelocationType,
                             offset |-> first_offset])])

AddRelocations(fixup_desc, offsets, rs, fx) ==
  IF offsets = <<>>
  THEN [rs |-> rs, fixups |-> fx]
  ELSE AddRelocationsLoop(fixup_desc, offsets, 1,
         [rs       |-> TrimRelocSectionPadding(rs),
          fixups   |-> fx,
          block_va |-> DetermineFirstRelocationBlockVirtualAddress(offsets,
                                                                   k4kPage),
          new_relocations |-> <<>>])

WordSize == IF win64 THEN 8 ELSE 4

AddVmSectionRelocations(rs, fx) ==
  AddRelocations([offset_type |-> "RelocSection",
                  operation   |-> "AddVmLoaderSectionVirtualAddress",
                  size        |-> 4],
                 vm_section_offsets_to_add_to_relocation_table, rs, fx)

AddVirtualizedCodeSectionRelocations(rs, fx) ==
  AddRelocations([offset_type |-> "RelocSection",
                  operation   |-> "AddVirtualizedCodeSectionVirtualAddress",
                  size        |-> WordSize],
                 virtualized_code_section_offsets_to_add_to_relocation_table,
                 rs, fx)

\* ------------------------------------------------------------------------
\* Relocation table of the source PE
\* ------------------------------------------------------------------------
\* the rva an entry of a block resolves to
EntryRva(block, e) == WToNat(block.VirtualAddress) + block.relocs[e].offset

\* GetRelocationRvas, sorted as Protect does (lines 1051-1056)
RelocEntries(blocks) ==
  UNION {{<<b, e>> : e \in 1..Len(blocks[b].relocs)} : b \in 1..Len(blocks)}

GetRelocationRvas(blocks) ==
  SetToSortedSeq({EntryRva(blocks[x[1]], x[2]) :
                    x \in {y \in RelocEntries(blocks) :
                             blocks[y[1]].relocs[y[2]].type # "ABSOLUTE"}})

\* every entry whose rva is one of the rvas becomes {ABSOLUTE, 0}.  The
\* entries rewritten for one rva resolve to the block va afterwards, which
\* a later rva of the list can match again: the list is walked in order.
\* the walk that rewrites nothing
RemoveNoRelocations(rvas_to_remove, blocks) == blocks

RECURSIVE RemoveRelocations(_, _)
RemoveRelocations(rvas_to_remove, blocks) ==
  IF rvas_to_remove = <<>> THEN blocks
  ELSE RemoveRelocations(Tail(rvas_to_remove),
         [b \in 1..Len(blocks) |->
            [blocks[b] EXCEPT !.relocs =
               [e \in 1..Len(blocks[b].relocs) |->
                  IF EntryRva(blocks[b], e) = Head(rvas_to_remove)
                  THEN PadRelocation
                  ELSE blocks[b].relocs[e]]]])

\* ------------------------------------------------------------------------
\* Assembly of the new PE and the fixup pass
\* ------------------------------------------------------------------------
RECURSIVE SumBlockBytes(_)
SumBlockBytes(blocks) ==
  IF blocks = <<>> THEN 0
  ELSE BlockBytes(Head(blocks)) + SumBlockBytes(Tail(blocks))

FileAlignment == 2 * 256

\* the .reloc section as CopySectionsDeep yields it: the blocks of the source
\* PE, padded to the file alignment
CopyRelocSection(blocks) ==
  [blocks   |-> blocks,
   size     |-> AlignUp(SumBlockBytes(blocks), FileAlignment),
   dir_size |-> SumBlockBytes(blocks)]

\* ------------------------------------------------------------------------
\* The PE file image: header fields, data directories, .rdata
\* ------------------------------------------------------------------------
\* IMAGE_DOS_HEADER.e_lfanew of the images
e_lfanew == 2 * 64

IMAGE_DIRECTORY_ENTRY_DEBUG == 6

IMAGE_DIRECTORY_ENTRY_TLS == 9

IMAGE_DIRECTORY_ENTRY_LOAD_CONFIG == 10

\* file offset of OptionalHeader.DataDirectory[index]: behind the signature,
\* the file header and the fixed part of the optional header
DataDirectoryOffset(index) ==
  e_lfanew + 24 + (IF win64 THEN 112 ELSE 96) + 8 * index

\* IMAGE_TLS_DIRECTORY: four pointers, SizeOfZeroFill, Characteristics
TlsDirectorySize == 4 * WordSize + 8

AddressOfIndexOffset == 2 * WordSize

AddressOfCallBacksOffset == 3 * WordSize

CharacteristicsOffset == 4 * WordSize + 4

IMAGE_SCN_ALIGN_1BYTES == NatToW(16 * Half)

\* the sections of the source PE in front of .reloc
RdataVA == 2 * k4kPage

TextPointerToRawData == 2 * FileAlignment

RdataPointerToRawData == 4 * FileAlignment

\* SectionHeaders::RvaToFileOffset for an rva of the headers, .text or .rdata
RvaToFileOffset(rva) ==
  IF rva >= RdataVA /\ rva < RdataVA + k4kPage
  THEN rva - RdataVA + RdataPointerToRawData
  ELSE IF rva >= TextVA /\ rva < TextVA + k4kPage
  THEN rva - TextVA + TextPointerToRawData
  ELSE rva

\* cells: 32-bit values by offset; what is not among them reads as 0
ReadCell(cells, o) == IF o \in DOMAIN cells THEN cells[o] ELSE WZero

\* a uintptr_t at an offset, as <<low word, high word>>: one cell on x86, two
\* on x64
ReadPointer(cells, o) ==
  <<ReadCell(cells, o), IF win64 THEN ReadCell(cells, o + 4) ELSE WZero>>

WritePointer(cells, o, q) ==
  IF win64 THEN (o :> q[1]) @@ (o + 4 :> q[2]) @@ cells
  ELSE (o :> q[1]) @@ cells

\* memset( data + o, 0, size )
ZeroCells(cells, o, size) ==
  [k \in DOMAIN cells |-> IF k >= o /\ k < o + size THEN WZero ELSE cells[k]]

DirectoryVirtualAddress(image, index) ==
  ReadCell(image, DataDirectoryOffset(index))

DirectorySize(image, index) == ReadCell(image, DataDirectoryOffset(index) + 4)

\* pe::Build: the appended sections follow .reloc at the section alignment
Max(a, b) == IF a > b THEN a ELSE b

VmLoaderVA(rs, loader) ==
  AlignUp(RelocVA + Max(rs.size, 1), SectionAlignment)

VirtualizedCodeVA(rs, loader) ==
  AlignUp(VmLoaderVA(rs, loader) + Max(loader.size, 1), SectionAlignment)

\* the names of the two added sections; the macros' values are defined
\* outside these sources
VM_LOADER_SECTION_NAME == "VM_LOADER_SECTION_NAME"

VM_CODE_SECTION_NAME == "VM_CODE_SECTION_NAME"

\* the sections of the input in header order: .reloc is the last one
OriginalSectionNames == <<".text", ".rdata", ".reloc">>

\* the two sections put in front of the last copied section
NewSectionNamesRelocLast(names) ==
  SubSeq(names, 1, Len(names) - 1)
  \o <<VM_LOADER_SECTION_NAME, VM_CODE_SECTION_NAME>>
  \o <<names[Len(names)]>>

\* CopySectionsDeep, then push_back of the VM loader section and of the
\* virtualized-code section
NewSectionNames(names) ==
  names \o <<VM_LOADER_SECTION_NAME, VM_CODE_SECTION_NAME>>

\* the VirtualAddress a section has in the built image
SectionVirtualAddress(name, rs, loader) ==
  CASE name = ".text" -> TextVA
    [] name = ".rdata" -> RdataVA
    [] name = ".reloc" -> RelocVA
    [] name = VM_LOADER_SECTION_NAME -> VmLoaderVA(rs, loader)
    [] name = VM_CODE_SECTION_NAME -> VirtualizedCodeVA(rs, loader)

NewSections(rs, loader) ==
  LET names == NewSectionNames(OriginalSectionNames)
  IN  [k \in 1..Len(names) |->
         [name |-> names[k],
          VirtualAddress |-> SectionVirtualAddress(names[k], rs, loader)]]

\* AssembleNewPe (lines 940-978)
AssembleNewPe ==
  /\ pc = "assemble"
  /\ LET rs0 == CopyRelocSection(original_pe_relocs)
         r1  == AddVmSectionRelocations(rs0, fixups)
         r2  == AddVirtualizedCodeSectionRelocations(r1.rs, r1.fixups)
     IN  /\ reloc_section' = r2.rs
         /\ fixups' = r2.fixups
         /\ new_pe' = [built  |-> TRUE,
                       fixed  |-> FALSE,
                       error  |-> FALSE,
                       image  |-> original_pe_image,
                       sections |-> NewSections(r2.rs, vm_loader_section),
                       text   |-> new_text_section,
                       reloc  |-> r2.rs.blocks,
                       loader |-> vm_loader_section.cells,
                       vcode  |-> virtualized_code_section.cells,
                       vm_loader_va |->
                         NatToW(VmLoaderVA(r2.rs, vm_loader_section)),
                       virtualized_code_va |->
                         NatToW(VirtualizedCodeVA(r2.rs, vm_loader_section))]
  /\ pc' = "fix"
  /\ UNCHANGED <<inputVars, peVars, engineVars, logVars,
                 new_text_section, vm_loader_section,
                 virtualized_code_section, relocation_rvas_to_remove,
                 vm_section_offsets_to_add_to_relocation_table,
                 virtualized_code_section_offsets_to_add_to_relocation_table>>

\* the section VirtualAddress a fixup operation adds or subtracts
FixupVA(pe, operation) ==
  IF operation = "AddVirtualizedCodeSectionVirtualAddress"
  THEN pe.virtualized_code_va
  ELSE pe.vm_loader_va

\* the fixup that adds the virtual address whatever the operation is
FixupWordAdd(pe, operation, value) == WAdd(value, FixupVA(pe, operation))

FixupWord(pe, operation, value) ==
  IF operation = "SubtractVmLoaderSectionVirtualAddress"
  THEN WSub(value, FixupVA(pe, operation))
  ELSE WAdd(value, FixupVA(pe, operation))

\* the operation on the low 32 bits only, without carry or borrow
FixupQuadLowOnly(pe, operation, value) ==
  <<FixupWord(pe, operation, value[1]), value[2]>>

\* the operation on each of the two 32-bit halves
FixupQuadBothHalves(pe, operation, value) ==
  <<FixupWord(pe, operation, value[1]), FixupWord(pe, operation, value[2])>>

FixupQuad(pe, operation, value) ==
  IF operation = "SubtractVmLoaderSectionVirtualAddress"
  THEN QSub(value, FixupVA(pe, operation))
  ELSE QAdd(value, FixupVA(pe, operation))

FixText(pe, f) ==
  IF f.desc.size = 4
  THEN [pe EXCEPT !.text =
          WriteU32(@, f.offset, FixupWord(pe, f.desc.operation,
                                          ReadU32(pe.text, f.offset)))]
  ELSE LET q == FixupQuad(pe, f.desc.operation,
                          <<ReadU32(pe.text, f.offset),
                            ReadU32(pe.text, f.offset + 4)>>)
       IN  [pe EXCEPT !.text = WriteU32(WriteU32(@, f.offset, q[1]),
                                        f.offset + 4, q[2])]

\* a fixup into .reloc lands on the header of the block that starts there:
\* VirtualAddress, and with 8 bytes SizeOfBlock behind it
FixReloc(pe, f) ==
  [pe EXCEPT !.reloc =
     [b \in 1..Len(pe.reloc) |->
        IF pe.reloc[b].at # f.offset THEN pe.reloc[b]
        ELSE IF f.desc.size = 4
        THEN [pe.reloc[b] EXCEPT !.VirtualAddress =
                FixupWord(pe, f.desc.operation, @)]
        ELSE LET q == FixupQuad(pe, f.desc.operation,
                                <<pe.reloc[b].VirtualAddress,
                                  pe.reloc[b].SizeOfBlock>>)
             IN  [pe.reloc[b] EXCEPT !.VirtualAddress = q[1],
                                     !.SizeOfBlock = q[2]]]]

\* the loader and virtualized-code sections, the headers and .rdata are kept
\* as 32-bit cells by offset; an 8-byte fixup takes two of them
FixCells(cells, pe, f) ==
  IF f.desc.size = 4
  THEN IF f.offset \in DOMAIN cells
       THEN [cells EXCEPT ![f.offset] = FixupWord(pe, f.desc.operation, @)]
       ELSE cells
  ELSE LET q == FixupQuad(pe, f.desc.operation,
                          <<ReadCell(cells, f.offset),
                            ReadCell(cells, f.offset + 4)>>)
       IN  [k \in DOMAIN cells |->
              IF k = f.offset THEN q[1]
              ELSE IF k = f.offset + 4 THEN q[2]
              ELSE cells[k]]

FixupOperations ==
  {"AddVmLoaderSectionVirtualAddress",
   "SubtractVmLoaderSectionVirtualAddress",
   "AddVirtualizedCodeSectionVirtualAddress"}

\* a size switch without its default case
IsAnySize(f) == TRUE

\* the cases of the two switches that do not throw
IsSupportedSize(f) == f.desc.size = 4 \/ f.desc.size = 8

IsSupportedOperation(f) == f.desc.operation \in FixupOperations

\* one pass of the loop; pe.error: the pass threw
ApplyFixup(pe, f) ==
  IF ~ IsSupportedSize(f) \/ ~ IsSupportedOperation(f)
  THEN [pe EXCEPT !.error = TRUE]
  ELSE CASE f.desc.offset_type = "TextSection" -> FixText(pe, f)
         [] f.desc.offset_type = "RelocSection" -> FixReloc(pe, f)
         [] f.desc.offset_type = "VmLoaderSection" ->
              [pe EXCEPT !.loader = FixCells(@, pe, f)]
         [] f.desc.offset_type = "VirtualizedCodeSection" ->
              [pe EXCEPT !.vcode = FixCells(@, pe, f)]
         [] f.desc.offset_type = "Beginning" ->
              [pe EXCEPT !.image = FixCells(@, pe, f)]

RECURSIVE ApplyFixups(_, _)
ApplyFixups(pe, fx) ==
  IF fx = <<>> \/ pe.error THEN pe
  ELSE ApplyFixups(ApplyFixup(pe, Head(fx)), Tail(fx))

\* the directory is left as it is
KeepPeDirectory(image, directory_index) == image

\* nullify_pe_directory: the directory's data and its entry become 0
NullifyPeDirectory(image, directory_index) ==
  LET entry  == DataDirectoryOffset(directory_index)
      rva    == WToNat(DirectoryVirtualAddress(image, directory_index))
      size   == WToNat(DirectorySize(image, directory_index))
      zeroed == ZeroCells(image, RvaToFileOffset(rva), size)
  IN  [k \in DOMAIN zeroed |->
         IF k = entry \/ k = entry + 4 THEN WZero ELSE zeroed[k]]

\* FixFinishedPe (lines 756-910): every fixup of the list, in list order,
\* then the LOAD_CONFIG and DEBUG directories are nullified.  A throw leaves
\* Protect without a result; its local new_pe is gone.
FixFinishedPe ==
  /\ pc = "fix"
  /\ LET fixed == ApplyFixups(new_pe, fixups)
     IN  IF fixed.error
         THEN /\ new_pe' = NoPe
              /\ pc' = "error"
         ELSE /\ new_pe' =
                   [fixed EXCEPT
                      !.fixed = TRUE,
                      !.image =
                        NullifyPeDirectory(
                          NullifyPeDirectory(
                            @, IMAGE_DIRECTORY_ENTRY_LOAD_CONFIG),
                          IMAGE_DIRECTORY_ENTRY_DEBUG)]
              /\ pc' = "done"
  /\ UNCHANGED <<inputVars, peVars, engineVars, contextVars,
                 reloc_section, logVars>>

\* ------------------------------------------------------------------------
\* Protect: the TLS callbacks (ENABLE_TLS_CALLBACKS)
\* ------------------------------------------------------------------------
\* file offset of OptionalHeader.ImageBase, a uintptr_t
ImageBaseOffset == e_lfanew + 24 + (IF win64 THEN 24 ELSE 28)

\* 0x00400000, and 0x140000000 on x64
DEFAULT_PE_BASE_ADDRESS ==
  IF win64 THEN <<<<16384, 0>>, NatToW(1)>>
  ELSE <<NatToW(64 * Half), WZero>>

\* section offset of the exported TlsCallback in the interpreter's section
interpreter_tls_callback_offset == 3 * 16

QZero == <<WZero, WZero>>

\* a - b on uintptr_t values
QSubQ(a, b) ==
  LET low == QSub(a, b[1])
  IN  <<low[1], WSub(low[2], b[2])>>

\* the loop of CopyTlsCallbackList from slot i on
RECURSIVE CopyTlsCallbackListFrom(_, _, _)
CopyTlsCallbackListFrom(data, start, i) ==
  LET callback_addr == ReadPointer(data, start + i * WordSize)
  IN  IF callback_addr = QZero THEN <<>>
      ELSE <<callback_addr>> \o CopyTlsCallbackListFrom(data, start, i + 1)

\* no callback of the source is taken over
CopyNoTlsCallbackList(data, tls_dir_file_offset, image_base) == <<>>

CopyTlsCallbackList(data, tls_dir_file_offset, image_base) ==
  LET AddressOfCallBacks ==
        ReadPointer(data, tls_dir_file_offset + AddressOfCallBacksOffset)
  IN  IF AddressOfCallBacks = QZero THEN <<>>
      ELSE CopyTlsCallbackListFrom(
             data,
             RvaToFileOffset(WToNat(QSubQ(AddressOfCallBacks, image_base)[1])),
             0)

\* the uintptr_t values of a list as cells from an offset on
RECURSIVE WritePointers(_, _, _)
WritePointers(cells, o, list) ==
  IF list = <<>> THEN cells
  ELSE WritePointers(WritePointer(cells, o, Head(list)), o + WordSize,
                     Tail(list))

\* the interpreter's callback and the padding go behind the list, the list
\* goes into the virtualized-code section, its non-zero slots into the
\* relocation offsets, the interpreter's slot into the fixups.
\* cx = [image, vcode, fixups, vcode_offsets]
AppendTlsCallbackList(cx, callbacks) ==
  LET my_tls_callback_index == Len(callbacks)
      tls_callback_list ==
        callbacks
        \o <<QAdd(DEFAULT_PE_BASE_ADDRESS,
                  NatToW(interpreter_tls_callback_offset))>>
        \o <<QZero, QZero, QZero, QZero, QZero>>
      app == AppendCode(cx.vcode.size, Len(tls_callback_list) * WordSize)
      tls_callback_list_offset == app.offset
      slots == SelectSeq([i \in 1..Len(tls_callback_list) |-> i],
                         LAMBDA i : tls_callback_list[i] # QZero)
  IN  [cx |->
         [cx EXCEPT
            !.vcode = [size  |-> app.size,
                       cells |-> WritePointers(cx.vcode.cells,
                                               tls_callback_list_offset,
                                               tls_callback_list)],
            !.vcode_offsets =
              @ \o [k \in 1..Len(slots) |->
                      tls_callback_list_offset + (slots[k] - 1) * WordSize],
            !.fixups =
              Append(@, [offset |-> tls_callback_list_offset
                                      + my_tls_callback_index * WordSize,
                         desc |-> [offset_type |-> "VirtualizedCodeSection",
                                   operation |->
                                     "AddVmLoaderSectionVirtualAddress",
                                   size |-> WordSize]])],
       tls_callback_list_offset |-> tls_callback_list_offset]

\* the target PE has a TLS directory: its callback list is extended
ExtendTlsDirectory(cx) ==
  LET image_base == ReadPointer(cx.image, ImageBaseOffset)
      tls_dir_file_offset ==
        RvaToFileOffset(WToNat(DirectoryVirtualAddress(
                                 cx.image, IMAGE_DIRECTORY_ENTRY_TLS)))
      r == AppendTlsCallbackList(
             cx, CopyTlsCallbackList(cx.image, tls_dir_file_offset,
                                     image_base))
      addr_of_callbacks_offset ==
        tls_dir_file_offset + AddressOfCallBacksOffset
  IN  [r.cx EXCEPT
         !.image = WritePointer(@, addr_of_callbacks_offset,
                                QAdd(DEFAULT_PE_BASE_ADDRESS,
                                     NatToW(r.tls_callback_list_offset))),
         !.fixups =
           Append(@, [offset |-> addr_of_callbacks_offset,
                      desc |-> [offset_type |-> "Beginning",
                                operation |->
                                  "AddVirtualizedCodeSectionVirtualAddress",
                                size |-> WordSize]])]

\* the target PE has none: a new directory goes into the virtualized-code
\* section
CreateTlsDirectory(cx) ==
  LET iapp == AppendCode(cx.vcode.size, WordSize)
      index_data_offset == iapp.offset
      cx1 == [cx EXCEPT
                !.vcode = [size  |-> iapp.size,
                           cells |-> WritePointer(cx.vcode.cells,
                                                  index_data_offset, QZero)]]
      r == AppendTlsCallbackList(cx1, <<>>)
      dapp == AppendCode(r.cx.vcode.size, TlsDirectorySize)
      tls_directory_data_offset == dapp.offset
      tls_directory ==
        WritePointer(
          WritePointer(
            (tls_directory_data_offset + CharacteristicsOffset
               :> IMAGE_SCN_ALIGN_1BYTES)
            @@ [k \in {tls_directory_data_offset + 4 * j :
                         j \in 0..((TlsDirectorySize \div 4) - 1)}
                  |-> WZero],
            tls_directory_data_offset + AddressOfIndexOffset,
            QAdd(DEFAULT_PE_BASE_ADDRESS, NatToW(index_data_offset))),
          tls_directory_data_offset + AddressOfCallBacksOffset,
          QAdd(DEFAULT_PE_BASE_ADDRESS, NatToW(r.tls_callback_list_offset)))
      virtualized_code_desc ==
        [offset_type |-> "VirtualizedCodeSection",
         operation |-> "AddVirtualizedCodeSectionVirtualAddress",
         size |-> WordSize]
      addr_of_index_offset == tls_directory_data_offset + AddressOfIndexOffset
      addr_of_callbacks_offset ==
        tls_directory_data_offset + AddressOfCallBacksOffset
      entry == DataDirectoryOffset(IMAGE_DIRECTORY_ENTRY_TLS)
  IN  [r.cx EXCEPT
         !.vcode = [size  |-> dapp.size,
                    cells |-> tls_directory @@ r.cx.vcode.cells],
         !.fixups =
           @ \o <<[offset |-> addr_of_index_offset,
                    desc |-> virtualized_code_desc],
                   [offset |-> addr_of_callbacks_offset,
                    desc |-> virtualized_code_desc],
                   [offset |-> entry,
                    desc |-> [offset_type |-> "Beginning",
                              operation |->
                                "AddVirtualizedCodeSectionVirtualAddress",
                              size |-> WordSize]]>>,
         !.vcode_offsets =
           @ \o <<addr_of_index_offset, addr_of_callbacks_offset>>,
         !.image = (entry :> NatToW(tls_directory_data_offset))
                   @@ (entry + 4 :> NatToW(TlsDirectorySize))
                   @@ @]

AddTlsCallbacks(cx) ==
  IF DirectorySize(cx.image, IMAGE_DIRECTORY_ENTRY_TLS) # WZero
  THEN ExtendTlsDirectory(cx)
  ELSE CreateTlsDirectory(cx)

\* ------------------------------------------------------------------------
\* Protect: the callbacks of the disassembly run
\* ------------------------------------------------------------------------
\* std::vector<uintptr_t> original_pe_relocation_rvas, sorted; the source
\* relocation table is untouched until the run is over
original_pe_relocation_rvas == GetRelocationRvas(original_pe_relocs)

\* std::lower_bound on the sorted list: the position of the first element
\* that is not less than the value, Len + 1 for cend()
LowerBound(list, value) ==
  LET S == {k \in 1..Len(list) : list[k] >= value}
  IN  IF S = {} THEN Len(list) + 1
      ELSE CHOOSE k \in S : \A j \in S : k <= j

\* the first loop: the bytes of the instruction in order, until one of them
\* is found in the list; the result is it_found_result
RECURSIVE FindFirstRelocation(_, _, _, _)
FindFirstRelocation(address, size, relocations_to_search, i) ==
  IF i >= size THEN Len(relocations_to_search) + 1
  ELSE LET it == LowerBound(relocations_to_search, address + i)
       IN  IF /\ it <= Len(relocations_to_search)
              /\ relocations_to_search[it] = address + i
           THEN it
           ELSE FindFirstRelocation(address, size, relocations_to_search,
                                    i + 1)

\* the second loop: from the position it on, up to the first rva that is not
\* within the instruction
RECURSIVE ScanRelocations(_, _, _, _)
ScanRelocations(address, size, relocations_to_search, it) ==
  IF it > Len(relocations_to_search) THEN <<>>
  ELSE LET reloc_rva == relocations_to_search[it]
           is_reloc_within_instruction ==
             reloc_rva >= address /\ reloc_rva < address + size
       IN  IF ~ is_reloc_within_instruction THEN <<>>
           ELSE <<reloc_rva>>
                  \o ScanRelocations(address, size, relocations_to_search,
                                     it + 1)

\* the search that stops at the first rva it finds
GetFirstRelocationWithinInstruction(address, size, relocations_to_search) ==
  LET it_found_result ==
        FindFirstRelocation(address, size, relocations_to_search, 0)
  IN  IF it_found_result <= Len(relocations_to_search)
      THEN <<relocations_to_search[it_found_result]>>
      ELSE <<>>

GetRelocationsWithinInstruction(address, size, relocations_to_search) ==
  LET it_found_result ==
        FindFirstRelocation(address, size, relocations_to_search, 0)
  IN  IF it_found_result <= Len(relocations_to_search)
      THEN <<relocations_to_search[it_found_result]>>
             \o ScanRelocations(address, size, relocations_to_search,
                                it_found_result + 1)
      ELSE <<>>

\* the loader shellcode of one virtualized instruction: its length and the
\* offsets of its named variables
LoaderShellcode ==
  [size |-> 32, VmCodeAddr |-> 4, ImageBase |-> 12, VmCoreFunction |-> 24,
   OrigAddr |-> 28]

\* section offset of the exported VmInterpreter in the loader section
interpreter_function_offset == 2 * 16

\* virtualizer::IsVirtualizeable on the decoded instruction
IsVirtualizeable(d) == d.ins.virtualizable

\* the next sequence number of the run log
LogSeq(cx) == Len(cx.vlog) + Len(cx.rlog) + 1

\* RandomU8 draws of the fill
RandomBytePool == {0, 255}

\* the fills the callback can draw for an instruction; it draws none for an
\* instruction it does not virtualize
RandomFills(d) ==
  IF d.ins.virtualizable /\ d.ins.eflags = 0 /\ d.ins.vm_size # 0
  THEN [1..d.ins.size -> RandomBytePool]
  ELSE {[k \in 1..d.ins.size |-> 0]}

\* no instruction is taken to change eflags
NeverChangesEflags(d) == FALSE

\* instruction.detail->x86.eflags != 0
ChangesEflags(d) == d.ins.eflags # 0

\* the fixups with one more, for the call of the interpreter
VirtualizationFixupsWithCall(loader_shellcode_offset, jmp_addr_offset) ==
  <<[offset |-> loader_shellcode_offset + LoaderShellcode.OrigAddr,
     desc |-> [offset_type |-> "VmLoaderSection",
               operation |-> "SubtractVmLoaderSectionVirtualAddress",
               size |-> 4]],
    [offset |-> loader_shellcode_offset + LoaderShellcode.VmCodeAddr,
     desc |-> [offset_type |-> "VmLoaderSection",
               operation |-> "AddVirtualizedCodeSectionVirtualAddress",
               size |-> 4]],
    [offset |-> loader_shellcode_offset + LoaderShellcode.VmCoreFunction,
     desc |-> [offset_type |-> "VmLoaderSection",
               operation |-> "AddVmLoaderSectionVirtualAddress",
               size |-> 4]],
    [offset |-> jmp_addr_offset,
     desc |-> [offset_type |-> "TextSection",
               operation |-> "AddVmLoaderSectionVirtualAddress",
               size |-> 4]]>>

\* jmp_back_addr_fixup, virtualized_code_addr_fixup and
\* jmp_to_vm_loader_fixup, in the order of their push_back
VirtualizationFixups(loader_shellcode_offset, jmp_addr_offset) ==
  <<[offset |-> loader_shellcode_offset + LoaderShellcode.OrigAddr,
     desc |-> [offset_type |-> "VmLoaderSection",
               operation |-> "SubtractVmLoaderSectionVirtualAddress",
               size |-> 4]],
    [offset |-> loader_shellcode_offset + LoaderShellcode.VmCodeAddr,
     desc |-> [offset_type |-> "VmLoaderSection",
               operation |-> "AddVirtualizedCodeSectionVirtualAddress",
               size |-> 4]],
    [offset |-> jmp_addr_offset,
     desc |-> [offset_type |-> "TextSection",
               operation |-> "AddVmLoaderSectionVirtualAddress",
               size |-> 4]]>>

\* cx = [text, loader, vcode, fixups, to_remove, vm_offsets, vlog, rlog,
\*       error]: the ProtectorContext, the run log and whether the callback
\* threw
\* every buffer is taken as virtualized code
CreatedVmCodeAlways(d) == TRUE

\* created_vm_code: virtualized_shellcode.GetBuffer().size() > 0
CreatedVmCode(d) == d.ins.vm_size > 0

EachInstructionCallback(cx, d, fill) ==
  IF ~ IsVirtualizeable(d) THEN cx
  ELSE IF ChangesEflags(d) THEN [cx EXCEPT !.error = TRUE]
  ELSE IF ~ CreatedVmCode(d) THEN cx
  ELSE
    LET relocations_rva_within_instruction ==
          GetRelocationsWithinInstruction(d.address, d.ins.size,
                                          original_pe_relocation_rvas)
        vapp == AppendCode(cx.vcode.size, d.ins.vm_size)
        virtualized_code_offset == vapp.offset
        loader_shellcode_offset_before == cx.loader.size
        vm_core_function_value ==
          WAdd(WSub(WSub(WSub(NatToW(interpreter_function_offset),
                              NatToW(loader_shellcode_offset_before)),
                         NatToW(5)),
                    NatToW(LoaderShellcode.VmCoreFunction)),
               NatToW(1))
        destination == NatToW(d.address + d.ins.size)
        origin == NatToW(loader_shellcode_offset_before
                         + LoaderShellcode.OrigAddr)
        orig_addr_value ==
          WAdd(WSub(WSub(destination, origin), NatToW(5)), NatToW(1))
        lapp == AppendCode(cx.loader.size, LoaderShellcode.size)
        loader_shellcode_offset == lapp.offset
        instruction_text_section_offset == RvaToTextOffset(d.address)
        jmp_addr_offset == instruction_text_section_offset + 1
        jmp_destination ==
          WSub(WSub(NatToW(loader_shellcode_offset), NatToW(d.address)),
               NatToW(5))
        filled == [k \in 1..Len(cx.text) |->
                     IF /\ k > instruction_text_section_offset
                        /\ k <= instruction_text_section_offset + d.ins.size
                     THEN IF k = instruction_text_section_offset + 1
                          THEN 233
                          ELSE fill[k - instruction_text_section_offset]
                     ELSE cx.text[k]]
    IN  [cx EXCEPT
          !.vcode  = [size |-> vapp.size, cells |-> cx.vcode.cells],
          !.loader =
            [size  |-> lapp.size,
             cells |->
               (loader_shellcode_offset + LoaderShellcode.VmCodeAddr
                  :> NatToW(virtualized_code_offset))
               @@ (loader_shellcode_offset + LoaderShellcode.ImageBase
                     :> pe_image_base_)
               @@ (loader_shellcode_offset + LoaderShellcode.VmCoreFunction
                     :> vm_core_function_value)
               @@ (loader_shellcode_offset + LoaderShellcode.OrigAddr
                     :> orig_addr_value)
               @@ cx.loader.cells],
          !.fixups =
            @ \o VirtualizationFixups(loader_shellcode_offset,
                                      jmp_addr_offset),
          !.vm_offsets = Append(@, loader_shellcode_offset
                                     + LoaderShellcode.ImageBase),
          !.text = WriteU32(filled, jmp_addr_offset, jmp_destination),
          !.to_remove = @ \o relocations_rva_within_instruction,
          !.vlog = Append(@, [seq     |-> LogSeq(cx),
                              address |-> d.address,
                              size    |-> d.ins.size,
                              loader_shellcode_offset |->
                                loader_shellcode_offset,
                              relocs  |-> relocations_rva_within_instruction])]

\* std::find + erase: the first occurrence goes, if there is one
RECURSIVE EraseFirst(_, _)
EraseFirst(list, x) ==
  IF list = <<>> THEN <<>>
  ELSE IF Head(list) = x THEN Tail(list)
  ELSE <<Head(list)>> \o EraseFirst(Tail(list), x)

RECURSIVE EraseEach(_, _)
EraseEach(list, xs) ==
  IF xs = <<>> THEN list
  ELSE EraseEach(EraseFirst(list, Head(xs)), Tail(xs))

InvalidInstructionCallback(cx, address, instruction_size_) ==
  LET text_section_offset == RvaToTextOffset(address)
      relocations_rva_within_instruction ==
        GetRelocationsWithinInstruction(address, instruction_size_,
                                        original_pe_relocation_rvas)
  IN  [cx EXCEPT
        !.text = [k \in 1..Len(cx.text) |->
                    IF /\ k > text_section_offset
                       /\ k <= text_section_offset + instruction_size_
                    THEN text_code[k] ELSE cx.text[k]],
        !.to_remove = EraseEach(@, relocations_rva_within_instruction),
        !.rlog = Append(@, [seq     |-> LogSeq(cx),
                            address |-> address,
                            size    |-> instruction_size_,
                            relocs  |-> relocations_rva_within_instruction])]

\* ------------------------------------------------------------------------
\* PeDisassemblyEngine: the main loop, and the run of Protect around it
\* ------------------------------------------------------------------------
Context ==
  [text       |-> new_text_section,
   loader     |-> vm_loader_section,
   vcode      |-> virtualized_code_section,
   fixups     |-> fixups,
   to_remove  |-> relocation_rvas_to_remove,
   vm_offsets |-> vm_section_offsets_to_add_to_relocation_table,
   vlog       |-> virtualized_log,
   rlog       |-> reset_log,
   error      |-> FALSE]

SetContext(cx) ==
  /\ new_text_section' = cx.text
  /\ vm_loader_section' = cx.loader
  /\ virtualized_code_section' = cx.vcode
  /\ fixups' = cx.fixups
  /\ relocation_rvas_to_remove' = cx.to_remove
  /\ vm_section_offsets_to_add_to_relocation_table' = cx.vm_offsets
  /\ virtualized_log' = cx.vlog
  /\ reset_log' = cx.rlog
  /\ UNCHANGED virtualized_code_section_offsets_to_add_to_relocation_table

EngineState ==
  [points |-> disassembly_points_,
   cache  |-> disassembly_points_cache_,
   ranges |-> data_ranges_,
   code   |-> code_,
   address |-> address_,
   fault  |-> FALSE,
   overflow |-> FALSE]

\* the decode at the engine's position; a code pointer outside the decoding
\* buffer decodes nothing
CurrentDecode ==
  IF code_[1] = 0 /\ address_[1] = 0
  THEN DecodeAt(WToNat(code_), WToNat(address_))
  ELSE [ins |-> InvalidInstruction, address |-> 0, code |-> 0]

\* pop the next disassembly point; the run is over when there is none
NextDisassemblyPoint ==
  /\ pc \in {"pop", "invalid"}
  /\ LET r == ContinueFromRedirectionInstructions(EngineState)
     IN  IF r.more
         THEN /\ disassembly_points_' = r.es.points
              /\ address_' = r.point.rva
              /\ code_' = r.point.code
              /\ pc' = "decode"
         ELSE /\ UNCHANGED <<disassembly_points_, address_, code_>>
              /\ pc' = "remove"
  /\ stream_' = <<>>
  /\ UNCHANGED <<inputVars, peVars, disassembly_points_cache_,
                 data_ranges_, contextVars, outputVars, logVars>>

\* the decoder fails at the engine's position
DecodeInvalid ==
  /\ pc = "decode"
  /\ CurrentDecode.ins.id = "INVALID"
  /\ pc' = "invalid"
  /\ UNCHANGED <<inputVars, peVars, engineVars, contextVars,
                 outputVars, logVars>>

\* the invalid-instruction callback for an instruction of the stream that
\* ran into the failed decode
ReportInvalidInstruction ==
  /\ pc = "invalid"
  /\ \E k \in 1..Len(stream_) :
       /\ SetContext(InvalidInstructionCallback(Context, stream_[k].address,
                                                stream_[k].size))
       /\ stream_' = SubSeq(stream_, 1, k - 1)
                       \o SubSeq(stream_, k + 1, Len(stream_))
  /\ UNCHANGED <<pc, inputVars, peVars, address_, code_,
                 disassembly_points_, disassembly_points_cache_, data_ranges_,
                 outputVars>>

\* step 1: an instruction inside a data range ends the stream
DecodeInDataRange ==
  /\ pc = "decode"
  /\ CurrentDecode.ins.id # "INVALID"
  /\ IsAddressWithinDataSectionOfCode(data_ranges_, CurrentDecode.address)
  /\ pc' = "pop"
  /\ UNCHANGED <<inputVars, peVars, engineVars, contextVars,
                 outputVars, logVars>>

\* cs_disasm_iter has moved code_ and address_ behind the instruction d
Decoded(es, d) ==
  [es EXCEPT !.code = NatToW(d.code + d.ins.size),
             !.address = NatToW(d.address + d.ins.size)]

\* steps 2 and 3: the per-instruction callback, then the action
DisassembleInstruction ==
  /\ pc = "decode"
  /\ LET d == CurrentDecode
     IN  /\ d.ins.id # "INVALID"
         /\ ~ IsAddressWithinDataSectionOfCode(data_ranges_, d.address)
         /\ \E fill \in RandomFills(d) :
              LET cx == EachInstructionCallback(Context, d, fill)
                  r  == ParseInstruction(d, Decoded(EngineState, d))
              IN  IF cx.error
                  THEN /\ pc' = "error"
                       /\ SetContext(cx)
                       /\ UNCHANGED engineVars
                  ELSE /\ SetContext(cx)
                       /\ disassembly_points_' = r.es.points
                       /\ disassembly_points_cache_' = r.es.cache
                       /\ data_ranges_' = r.es.ranges
                       /\ stream_' = Append(stream_, [address |-> d.address,
                                                      size |-> d.ins.size])
                       /\ address_' = r.es.address
                       /\ code_' = r.es.code
                       /\ pc' = IF r.es.overflow THEN "overflow"
                                ELSE IF r.es.fault THEN "fault"
                                ELSE IF r.action = "NextInstruction"
                                THEN "decode" ELSE "pop"
  /\ UNCHANGED <<inputVars, peVars, outputVars>>

\* section offset of the one relocation inside the interpreter's VM
\* function section, and the size of that section
InterpreterRelocationOffset == 2 * 8

InterpreterSectionSize == 4 * 16

\* AddInterpreterRelocationsToFixup: every relocation of the interpreter's
\* VM function section becomes a relocation offset and a fixup
AddInterpreterRelocationsToFixup(offsets, cx) ==
  [cx EXCEPT
     !.vm_offsets = @ \o offsets,
     !.fixups =
       @ \o [k \in 1..Len(offsets) |->
               [offset |-> offsets[k],
                desc |-> [offset_type |-> "VmLoaderSection",
                          operation |-> "AddVmLoaderSectionVirtualAddress",
                          size |-> 4]]]]

\* Protect with ENABLE_TLS_CALLBACKS, from the creation of the context up to
\* the call of DisassembleFromEntrypoint (lines 1018-1056)
ProtectSetup ==
  /\ pc = "setup"
  /\ LET tls == AddTlsCallbacks(
                  [image  |-> original_pe_image,
                   vcode  |-> virtualized_code_section,
                   fixups |-> fixups,
                   vcode_offsets |->
                     virtualized_code_section_offsets_to_add_to_relocation_table])
         cx  == AddInterpreterRelocationsToFixup(
                  <<InterpreterRelocationOffset>>,
                  [fixups     |-> tls.fixups,
                   vm_offsets |->
                     vm_section_offsets_to_add_to_relocation_table])
     IN  /\ original_pe_image' = tls.image
         /\ virtualized_code_section' = tls.vcode
         /\ virtualized_code_section_offsets_to_add_to_relocation_table' =
              tls.vcode_offsets
         /\ fixups' = cx.fixups
         /\ vm_section_offsets_to_add_to_relocation_table' = cx.vm_offsets
  /\ pc' = "pop"
  /\ UNCHANGED <<inputVars, original_pe_relocs, engineVars, new_text_section,
                 vm_loader_section, relocation_rvas_to_remove, outputVars,
                 logVars>>

\* RemoveRelocations on the source PE, before the assembly (line 1335)
RemoveQueuedRelocations ==
  /\ pc = "remove"
  /\ original_pe_relocs' =
       RemoveRelocations(relocation_rvas_to_remove, original_pe_relocs)
  /\ pc' = "assemble"
  /\ UNCHANGED <<inputVars, original_pe_image, engineVars, contextVars,
                 outputVars, logVars>>

\* ------------------------------------------------------------------------
\* Specification of the relocation rebuild: assembly and fixups on offset
\* lists drawn from OffsetPool
\* ------------------------------------------------------------------------
MaxOffsets == 3

OffsetPool == {0, 256, 1280, 4092, 4096, 4112, 8196, 12296}

SortedOffsetLists ==
  {SetToSortedSeq(S) : S \in {T \in SUBSET OffsetPool : Cardinality(T) <= MaxOffsets}}

VirtualizedCodeOffsetPool == {0, 8, 4100}

SortedVirtualizedCodeOffsetLists ==
  {SetToSortedSeq(S) : S \in SUBSET VirtualizedCodeOffsetPool}

SourceBlock(at, va, offsets) ==
  [at |-> at, added |-> FALSE,
   VirtualAddress |-> NatToW(va),
   SizeOfBlock |-> NatToW(8 + 2 * Len(offsets)),
   relocs |-> [k \in 1..Len(offsets) |->
                 IF offsets[k] < 0 THEN PadRelocation
                 ELSE [type |-> RelocationType, offset |-> offsets[k]]]]

\* relocation tables of a source PE: none, one block, two blocks (-1 = pad)
SourceRelocTables ==
  {<<>>,
   <<SourceBlock(0, TextVA, <<1, 16>>)>>,
   <<SourceBlock(0, TextVA, <<1, -1>>), SourceBlock(12, 2 * k4kPage, <<8, 20>>)>>}

\* data directories of a source PE: the entries of TLS, LOAD_CONFIG and DEBUG
\* as <<rva, size>>, and the cells of .rdata they refer to
DirectoryEntry(index, rva, size) ==
  (DataDirectoryOffset(index) :> NatToW(rva))
  @@ (DataDirectoryOffset(index) + 4 :> NatToW(size))

\* no TLS, no load configuration, no debug directory
PlainHeader ==
  DirectoryEntry(IMAGE_DIRECTORY_ENTRY_TLS, 0, 0)
  @@ DirectoryEntry(IMAGE_DIRECTORY_ENTRY_LOAD_CONFIG, 0, 0)
  @@ DirectoryEntry(IMAGE_DIRECTORY_ENTRY_DEBUG, 0, 0)

\* a debug directory of 8 bytes at rva 0x2040 and a load configuration of 4
\* bytes at rva 0x2060, with other data of .rdata between them
DebugHeader ==
  DirectoryEntry(IMAGE_DIRECTORY_ENTRY_TLS, 0, 0)
  @@ DirectoryEntry(IMAGE_DIRECTORY_ENTRY_LOAD_CONFIG, RdataVA + 96, 4)
  @@ DirectoryEntry(IMAGE_DIRECTORY_ENTRY_DEBUG, RdataVA + 64, 8)
  @@ (RvaToFileOffset(RdataVA + 64) :> NatToW(2))
  @@ (RvaToFileOffset(RdataVA + 68) :> NatToW(3))
  @@ (RvaToFileOffset(RdataVA + 72) :> NatToW(5))
  @@ (RvaToFileOffset(RdataVA + 96) :> NatToW(7))

InitIdleEngine ==
  /\ pe_image_base_ = NatToW(64 * Half)
  /\ text_code = <<>>
  /\ program = <<>>
  /\ address_ = WZero
  /\ code_ = WZero
  /\ disassembly_points_ = <<>>
  /\ disassembly_points_cache_ = {}
  /\ data_ranges_ = <<>>
  /\ stream_ = <<>>
  /\ virtualized_log = <<>>
  /\ reset_log = <<>>

InitReloc ==
  /\ win64 \in BOOLEAN
  /\ pc = "assemble"
  /\ InitIdleEngine
  /\ original_pe_relocs \in SourceRelocTables
  /\ original_pe_image \in {PlainHeader, DebugHeader}
  /\ new_text_section = <<>>
  /\ vm_section_offsets_to_add_to_relocation_table \in SortedOffsetLists
  /\ virtualized_code_section_offsets_to_add_to_relocation_table
       \in SortedVirtualizedCodeOffsetLists
  /\ vm_loader_section =
       [size |-> 4 * k4kPage, cells |-> <<>>]
  /\ virtualized_code_section = [size |-> 4 * k4kPage, cells |-> <<>>]
  /\ fixups = <<>>
  /\ relocation_rvas_to_remove = <<>>
  /\ reloc_section = CopyRelocSection(original_pe_relocs)
  /\ new_pe = NoPe

NextReloc == AssembleNewPe \/ FixFinishedPe

SpecReloc == InitReloc /\ [][NextReloc]_vars

\* ------------------------------------------------------------------------
\* Specification of the removal of relocations: RemoveRelocations on a
\* relocation table and a list of rvas
\* ------------------------------------------------------------------------
MaxRemoved == 2

\* relocation tables: those of SourceRelocTables, and one whose first entry
\* has offset 0 and resolves to the va of its block, as the padding does
RemoveRelocTables ==
  SourceRelocTables
  \cup {<<SourceBlock(0, TextVA, <<0, 1, 16, -1>>)>>,
        <<SourceBlock(0, TextVA, <<1, 16>>),
          SourceBlock(12, 2 * k4kPage, <<1, 16, 20, -1>>)>>}

\* rvas of entries, the va of a block, and an rva without relocation
RemovedRvaPool ==
  {TextVA, TextVA + 1, TextVA + 16, 2 * k4kPage + 1, 2 * k4kPage + 20,
   TextVA + 5}

\* the lists of rvas, in any order and with repetitions
RemovedRvaLists ==
  UNION {[1..n -> RemovedRvaPool] : n \in 0..MaxRemoved}

InitRemove ==
  /\ win64 \in BOOLEAN
  /\ pc = "remove"
  /\ InitIdleEngine
  /\ original_pe_relocs \in RemoveRelocTables
  /\ original_pe_image = PlainHeader
  /\ new_text_section = <<>>
  /\ vm_section_offsets_to_add_to_relocation_table = <<>>
  /\ virtualized_code_section_offsets_to_add_to_relocation_table = <<>>
  /\ vm_loader_section = [size |-> 4 * k4kPage, cells |-> <<>>]
  /\ virtualized_code_section = [size |-> 4 * k4kPage, cells |-> <<>>]
  /\ fixups = <<>>
  /\ relocation_rvas_to_remove \in RemovedRvaLists
  /\ reloc_section = CopyRelocSection(original_pe_relocs)
  /\ new_pe = NoPe

NextRemove == RemoveQueuedRelocations

SpecRemove == InitRemove /\ [][NextRemove]_vars

\* ------------------------------------------------------------------------
\* FixFinishedPe on its own: an assembled image and a list of fixups
\* ------------------------------------------------------------------------
OffsetRelativeTo ==
  {"VmLoaderSection", "TextSection", "RelocSection",
   "VirtualizedCodeSection", "Beginning"}

\* a FixupOperation outside the enumerators
OtherOperation == "Other"

\* uint8_t sizes of a descriptor
FixSizes == {2, 4, 8}

\* the ends a list of fixups is drawn up to
MaxFixups == 2

FixTextSize == 16

\* the place each origin is fixed at
FixOffset(offset_type) ==
  CASE offset_type = "TextSection" -> 3
    [] offset_type = "RelocSection" -> 0
    [] offset_type = "VmLoaderSection" -> InterpreterRelocationOffset
    [] offset_type = "VirtualizedCodeSection" -> 8
    [] offset_type = "Beginning" ->
         DataDirectoryOffset(IMAGE_DIRECTORY_ENTRY_TLS)

FixPool ==
  {[offset |-> FixOffset(t),
    desc |-> [offset_type |-> t, operation |-> op, size |-> sz]] :
     t \in OffsetRelativeTo,
     op \in FixupOperations \cup {OtherOperation},
     sz \in FixSizes}

\* the fixups longer lists are made of
FixListPool ==
  {f \in FixPool : /\ f.desc.offset_type \in {"Beginning", "VmLoaderSection"}
                   /\ IsSupportedSize(f)}

FixLists ==
  [1..1 -> FixPool] \cup UNION {[1..n -> FixListPool] : n \in 2..MaxFixups}

\* an assembled image whose bytes are all 0 or all 0xFF
FixPe(w64, byte) ==
  LET word == BytesW(<<byte, byte, byte, byte>>)
      at(o) == (o :> word) @@ (o + 4 :> word)
  IN  [built  |-> TRUE,
       fixed  |-> FALSE,
       error  |-> FALSE,
       image  |-> at(DataDirectoryOffset(IMAGE_DIRECTORY_ENTRY_TLS))
                  @@ PlainHeader,
       text   |-> [k \in 1..FixTextSize |-> byte],
       reloc  |-> <<[at |-> 0,
                     relocs |-> <<[type |-> RelocationType, offset |-> 4],
                                  PadRelocation>>,
                     VirtualAddress |-> word,
                     SizeOfBlock |-> word,
                     added |-> TRUE]>>,
       loader |-> at(InterpreterRelocationOffset),
       vcode  |-> at(8),
       vm_loader_va |-> NatToW(4 * k4kPage),
       virtualized_code_va |-> NatToW(5 * k4kPage)]

InitFix ==
  /\ win64 \in BOOLEAN
  /\ pc = "fix"
  /\ InitIdleEngine
  /\ original_pe_relocs = <<>>
  /\ original_pe_image = PlainHeader
  /\ new_text_section = <<>>
  /\ vm_section_offsets_to_add_to_relocation_table = <<>>
  /\ virtualized_code_section_offsets_to_add_to_relocation_table = <<>>
  /\ vm_loader_section = [size |-> InterpreterSectionSize, cells |-> <<>>]
  /\ virtualized_code_section = [size |-> 0, cells |-> <<>>]
  /\ fixups \in FixLists
  /\ relocation_rvas_to_remove = <<>>
  /\ reloc_section = CopyRelocSection(original_pe_relocs)
  /\ \E byte \in {0, 255} : new_pe = FixPe(win64, byte)

NextFix == FixFinishedPe

SpecFix == InitFix /\ [][NextFix]_vars

\* ------------------------------------------------------------------------
\* Input images of the protector run
\* ------------------------------------------------------------------------
ImageBase == NatToW(64 * Half)

\* an address constant of the image: an rva on x64, a va on x86
Va(w64, rva) == IF w64 THEN NatToW(rva) ELSE WAdd(ImageBase, NatToW(rva))

\* .text of n bytes of 0xCC padding with 32-bit values at some offsets
TextBytes(n, values) ==
  LET RECURSIVE Put(_, _)
      Put(bytes, offs) ==
        IF offs = {} THEN bytes
        ELSE LET o == CHOOSE x \in offs : TRUE
             IN  Put(WriteU32(bytes, o, values[o]), offs \ {o})
  IN  Put([k \in 1..n |-> 204], DOMAIN values)

\* the decoder's view: the instruction at each offset, INT3 on the padding
Listing(n, at) ==
  [k \in 1..n |-> IF (k - 1) \in DOMAIN at THEN at[k - 1]
                  ELSE Ins("INT3", 1, <<>>)]

\* an instruction the virtualizer takes, of the given size
Virtualizeable(size) ==
  [Ins("LEA", size, <<RegOp("EAX"), MemOp("EBX", "INVALID", 1, WZero)>>)
     EXCEPT !.virtualizable = TRUE, !.vm_size = 8]

\* the indirect jump through a table at table_rva, placed at offset o
JumpThroughTable(w64, o, table_rva) ==
  IF w64
  THEN (o :> Ins("MOV", 7, <<RegOp("RAX"),
                             MemOp("RCX", "RDX", 4, Va(w64, table_rva))>>))
       @@ (o + 7 :> Ins("ADD", 3, <<RegOp("RAX"), RegOp("RCX")>>))
       @@ (o + 10 :> Ins("JMP", 2, <<RegOp("RAX")>>))
  ELSE (o :> Ins("JMP", 7, <<MemOp("INVALID", "EAX", 4,
                                   Va(w64, table_rva))>>))

Image(text, listing, relocs) ==
  [text |-> text, program |-> listing, relocs |-> relocs]

\* a conditional jump to the instruction right behind it: the target is
\* reached both by the branch and by falling through
FallThroughImage(w64, last) ==
  Image(TextBytes(16, <<>>),
        Listing(16, (0 :> Ins("JCC", 2, <<ImmOp(NatToW(TextVA + 2))>>))
                    @@ (2 :> Virtualizeable(6))
                    @@ (8 :> last)),
        <<[at |-> 0, added |-> FALSE,
           VirtualAddress |-> NatToW(TextVA), SizeOfBlock |-> NatToW(12),
           relocs |-> <<[type |-> IF w64 THEN "DIR64" ELSE "HIGHLOW",
                         offset |-> 4],
                        [type |-> "ABSOLUTE", offset |-> 0]>>]>>)

\* a conditional jump into the middle of the instruction behind it: the two
\* streams decode overlapping instructions, and the second one runs into
\* bytes that do not decode
OverlapImage(w64) ==
  Image(TextBytes(16, <<>>),
        Listing(16, (0 :> Ins("JCC", 2, <<ImmOp(NatToW(TextVA + 3))>>))
                    @@ (2 :> Virtualizeable(6))
                    @@ (3 :> Virtualizeable(6))
                    @@ (8 :> Ins("RET", 1, <<>>))
                    @@ (9 :> InvalidInstruction)),
        <<[at |-> 0, added |-> FALSE,
           VirtualAddress |-> NatToW(TextVA), SizeOfBlock |-> NatToW(12),
           relocs |-> <<[type |-> IF w64 THEN "DIR64" ELSE "HIGHLOW",
                         offset |-> 4],
                        [type |-> "ABSOLUTE", offset |-> 0]>>]>>)

\* a call, a virtualizable instruction behind it, and the callee jumping
\* through a table that lies over that instruction
LateTableImage(w64) ==
  Image(TextBytes(48, (5 :> Va(w64, TextVA + 32)) @@ (9 :> WZero)),
        Listing(48, (0 :> Ins("CALL", 5, <<ImmOp(NatToW(TextVA + 16))>>))
                    @@ (5 :> Virtualizeable(5))
                    @@ (10 :> Ins("RET", 1, <<>>))
                    @@ JumpThroughTable(w64, 16, TextVA + 5)
                    @@ (32 :> Ins("RET", 1, <<>>))),
        <<>>)

\* a jump through a table whose second target runs into the table
TableFirstImage(w64) ==
  Image(TextBytes(80, (32 :> Va(w64, TextVA + 48))
                      @@ (36 :> Va(w64, TextVA + 27))
                      @@ (40 :> WZero)),
        Listing(80, JumpThroughTable(w64, 0, TextVA + 32)
                    @@ (27 :> Virtualizeable(5))
                    @@ (32 :> Ins("ADD", 2, <<RegOp("EAX"), RegOp("EAX")>>))
                    @@ (48 :> Ins("RET", 1, <<>>))),
        <<>>)

\* a virtualizable instruction that touches eflags
EflagsImage ==
  Image(TextBytes(16, <<>>),
        Listing(16, (0 :> [Virtualizeable(5) EXCEPT !.eflags = 1])
                    @@ (5 :> Ins("RET", 1, <<>>))),
        <<>>)

\* two conditional jumps to the same target, and at the target a jump to
\* itself: the target is asked for while it is on the work list and again
\* after it was popped
RepeatedTargetImage ==
  Image(TextBytes(16, <<>>),
        Listing(16, (0 :> Ins("JCC", 2, <<ImmOp(NatToW(TextVA + 4))>>))
                    @@ (2 :> Ins("JCC", 2, <<ImmOp(NatToW(TextVA + 4))>>))
                    @@ (4 :> Ins("JMP", 5, <<ImmOp(NatToW(TextVA + 4))>>))),
        <<>>)

\* a virtualizable instruction for which the virtualizer creates no code,
\* and one behind it for which it does
EmptyVmCodeImage ==
  Image(TextBytes(16, <<>>),
        Listing(16, (0 :> [Virtualizeable(5) EXCEPT !.vm_size = 0])
                    @@ (5 :> Virtualizeable(6))
                    @@ (11 :> Ins("RET", 1, <<>>))),
        <<>>)

Images(w64) ==
  {FallThroughImage(w64, Ins("RET", 1, <<>>)),
   FallThroughImage(w64, InvalidInstruction),
   OverlapImage(w64),
   LateTableImage(w64),
   TableFirstImage(w64),
   EflagsImage,
   RepeatedTargetImage}

\* Protect up to the call of DisassembleFromEntrypoint: the sections of the
\* context, the interpreter's relocation as a fixup, the entry point seeded
Init ==
  /\ win64 \in BOOLEAN
  /\ pe_image_base_ = ImageBase
  /\ \E image \in Images(win64) :
       /\ text_code = image.text
       /\ program = image.program
       /\ original_pe_relocs = image.relocs
       /\ original_pe_image = PlainHeader
       /\ new_text_section = image.text
  /\ pc = "pop"
  /\ address_ = WZero
  /\ code_ = WZero
  /\ disassembly_points_ = <<[rva |-> NatToW(TextVA), code |-> WZero]>>
  /\ disassembly_points_cache_ = {NatToW(TextVA)}
  /\ data_ranges_ = <<>>
  /\ stream_ = <<>>
  /\ vm_loader_section =
       [size  |-> InterpreterSectionSize,
        cells |-> (InterpreterRelocationOffset :> WZero)]
  /\ virtualized_code_section = [size |-> 0, cells |-> <<>>]
  /\ fixups = <<[offset |-> InterpreterRelocationOffset,
                 desc |-> [offset_type |-> "VmLoaderSection",
                           operation |-> "AddVmLoaderSectionVirtualAddress",
                           size |-> 4]]>>
  /\ relocation_rvas_to_remove = <<>>
  /\ vm_section_offsets_to_add_to_relocation_table =
       <<InterpreterRelocationOffset>>
  /\ virtualized_code_section_offsets_to_add_to_relocation_table = <<>>
  /\ reloc_section = CopyRelocSection(original_pe_relocs)
  /\ new_pe = NoPe
  /\ virtualized_log = <<>>
  /\ reset_log = <<>>

Next ==
  \/ NextDisassemblyPoint
  \/ DecodeInvalid
  \/ ReportInvalidInstruction
  \/ DecodeInDataRange
  \/ DisassembleInstruction
  \/ RemoveQueuedRelocations
  \/ AssembleNewPe
  \/ FixFinishedPe

Spec == Init /\ [][Next]_vars

\* ------------------------------------------------------------------------
\* Specification of the relocations within instructions: the protector run
\* on the images, and on one with an instruction the virtualizer creates no
\* code for, with relocation tables drawn from WithinOffsetPool
\* ------------------------------------------------------------------------
MaxWithin == 3

\* offsets in .text before, inside and behind the virtualizable instructions
\* of the images
WithinOffsetPool == {1, 2, 4, 7, 8, 28}

WithinRelocTables ==
  {<<SourceBlock(0, TextVA, SetToSortedSeq(S))>> :
     S \in {T \in SUBSET WithinOffsetPool : Cardinality(T) <= MaxWithin}}

InitWithin ==
  /\ win64 \in BOOLEAN
  /\ pe_image_base_ = ImageBase
  /\ \E image \in Images(win64) \cup {EmptyVmCodeImage} :
       /\ text_code = image.text
       /\ program = image.program
       /\ original_pe_image = PlainHeader
       /\ new_text_section = image.text
  /\ original_pe_relocs \in WithinRelocTables
  /\ pc = "pop"
  /\ address_ = WZero
  /\ code_ = WZero
  /\ disassembly_points_ = <<[rva |-> NatToW(TextVA), code |-> WZero]>>
  /\ disassembly_points_cache_ = {NatToW(TextVA)}
  /\ data_ranges_ = <<>>
  /\ stream_ = <<>>
  /\ vm_loader_section =
       [size  |-> InterpreterSectionSize,
        cells |-> (InterpreterRelocationOffset :> WZero)]
  /\ virtualized_code_section = [size |-> 0, cells |-> <<>>]
  /\ fixups = <<[offset |-> InterpreterRelocationOffset,
                 desc |-> [offset_type |-> "VmLoaderSection",
                           operation |-> "AddVmLoaderSectionVirtualAddress",
                           size |-> 4]]>>
  /\ relocation_rvas_to_remove = <<>>
  /\ vm_section_offsets_to_add_to_relocation_table =
       <<InterpreterRelocationOffset>>
  /\ virtualized_code_section_offsets_to_add_to_relocation_table = <<>>
  /\ reloc_section = CopyRelocSection(original_pe_relocs)
  /\ new_pe = NoPe
  /\ virtualized_log = <<>>
  /\ reset_log = <<>>

NextWithin == Next

SpecWithin == InitWithin /\ [][NextWithin]_vars

\* ------------------------------------------------------------------------
\* Specification of the protector run with TLS callbacks: source PEs with
\* and without a TLS directory, at the default and at another image base
\* ------------------------------------------------------------------------
\* 0x00400000 and 0x10000000; 0x140000000 and 0x180000000 on x64
ImageBases(w64) ==
  IF w64
  THEN {<<<<16384, 0>>, NatToW(1)>>, <<<<32768, 0>>, NatToW(1)>>}
  ELSE {<<NatToW(64 * Half), WZero>>, <<<<4096, 0>>, WZero>>}

\* how many callbacks the TLS directory of a source PE has
MaxCallbacks == 2

\* rva of the TLS directory of a source PE, and of its callback list
TlsDirectoryRva == RdataVA

TlsCallbackListRva == RdataVA + 128

\* the header of a source PE without a TLS directory
NoTlsHeader(w64, base) ==
  WritePointer(PlainHeader, ImageBaseOffset, base)

\* the header and .rdata of a source PE with a TLS directory; n < 0: the
\* directory has no callback list, otherwise the list has n callbacks
TlsHeader(w64, base, n) ==
  LET dir  == RvaToFileOffset(TlsDirectoryRva)
      list == RvaToFileOffset(TlsCallbackListRva)
      callbacks == [k \in 1..n |-> QAdd(base, NatToW(TextVA + 8 * k))]
  IN  DirectoryEntry(IMAGE_DIRECTORY_ENTRY_TLS, TlsDirectoryRva,
                     TlsDirectorySize)
      @@ WritePointer(
           WritePointer(
             [k \in {dir + 4 * j : j \in 0..((TlsDirectorySize \div 4) - 1)}
                |-> WZero],
             dir + AddressOfCallBacksOffset,
             IF n < 0 THEN QZero ELSE QAdd(base, NatToW(TlsCallbackListRva))),
           dir + AddressOfIndexOffset, QAdd(base, NatToW(RdataVA + 256)))
      @@ (IF n < 0 THEN <<>>
          ELSE WritePointers(<<>>, list, callbacks \o <<QZero>>))
      @@ NoTlsHeader(w64, base)

Headers(w64, base) ==
  {NoTlsHeader(w64, base)}
  \cup {TlsHeader(w64, base, n) : n \in (0 - 1)..MaxCallbacks}

InitTls ==
  /\ win64 \in BOOLEAN
  /\ \E base \in ImageBases(win64) :
       /\ pe_image_base_ = base[1]
       /\ original_pe_image \in Headers(win64, base)
       /\ \E image \in IF base = DEFAULT_PE_BASE_ADDRESS THEN Images(win64)
                         ELSE {FallThroughImage(win64, Ins("RET", 1, <<>>)),
                               OverlapImage(win64)} :
            /\ text_code = image.text
            /\ program = image.program
            /\ original_pe_relocs = image.relocs
            /\ new_text_section = image.text
  /\ pc = "setup"
  /\ address_ = WZero
  /\ code_ = WZero
  /\ disassembly_points_ = <<[rva |-> NatToW(TextVA), code |-> WZero]>>
  /\ disassembly_points_cache_ = {NatToW(TextVA)}
  /\ data_ranges_ = <<>>
  /\ stream_ = <<>>
  /\ vm_loader_section =
       [size  |-> InterpreterSectionSize,
        cells |-> (InterpreterRelocationOffset :> WZero)]
  /\ virtualized_code_section = [size |-> 0, cells |-> <<>>]
  /\ fixups = <<>>
  /\ relocation_rvas_to_remove = <<>>
  /\ vm_section_offsets_to_add_to_relocation_table = <<>>
  /\ virtualized_code_section_offsets_to_add_to_relocation_table = <<>>
  /\ reloc_section = CopyRelocSection(original_pe_relocs)
  /\ new_pe = NoPe
  /\ virtualized_log = <<>>
  /\ reset_log = <<>>

NextTls == ProtectSetup \/ Next

SpecTls == InitTls /\ [][NextTls]_vars

\* ------------------------------------------------------------------------
\* Specification of the jump-table parse: the engine stands on an indirect
\* jump through a table whose slots are drawn from SlotPool
\* ------------------------------------------------------------------------
MaxTableLen == 3

\* 0, 0xCCCCCCCC, 0x00401030, 0x00401040, 0x00400800, 0x00001030, 0x00402000
SlotPool ==
  {WZero, <<52428, 52428>>, <<64, 4144>>, <<64, 4160>>, <<64, 2048>>,
   <<0, 4144>>, <<64, 8192>>}

JtTextSize == 64 + 4 * MaxTableLen

\* the table lies at 0x1020, or in the last bytes of .text
TableOffsets == {32, JtTextSize - 4 * MaxTableLen}

JumpTableImage(w64, table_offset, slots) ==
  Image(TextBytes(JtTextSize,
                  [o \in {table_offset + 4 * (k - 1) : k \in 1..MaxTableLen}
                     |-> slots[((o - table_offset) \div 4) + 1]]),
        Listing(JtTextSize, JumpThroughTable(w64, 0, TextVA + table_offset)),
        <<>>)

InitJT ==
  /\ win64 \in BOOLEAN
  /\ pe_image_base_ = ImageBase
  /\ \E table_offset \in TableOffsets :
       \E slots \in [1..MaxTableLen -> SlotPool] :
         LET image == JumpTableImage(win64, table_offset, slots)
         IN  /\ text_code = image.text
             /\ program = image.program
             /\ original_pe_relocs = image.relocs
             /\ original_pe_image = PlainHeader
             /\ new_text_section = image.text
  /\ pc = "decode"
  /\ address_ = NatToW(TextVA)
  /\ code_ = WZero
  /\ disassembly_points_ = <<>>
  /\ disassembly_points_cache_ \in
       {{NatToW(TextVA)}, {NatToW(TextVA), NatToW(TextVA + 48)}}
  /\ data_ranges_ = <<>>
  /\ stream_ = <<>>
  /\ vm_loader_section =
       [size  |-> InterpreterSectionSize,
        cells |-> (InterpreterRelocationOffset :> WZero)]
  /\ virtualized_code_section = [size |-> 0, cells |-> <<>>]
  /\ fixups = <<>>
  /\ relocation_rvas_to_remove = <<>>
  /\ vm_section_offsets_to_add_to_relocation_table = <<>>
  /\ virtualized_code_section_offsets_to_add_to_relocation_table = <<>>
  /\ reloc_section = CopyRelocSection(original_pe_relocs)
  /\ new_pe = NoPe
  /\ virtualized_log = <<>>
  /\ reset_log = <<>>

NextJT == DisassembleInstruction

SpecJT == InitJT /\ [][NextJT]_vars

\* ------------------------------------------------------------------------
\* Specification of the function-prologue test: the engine stands on a PUSH
\* of an address inside .text, from which a chain of direct jumps leads to
\* the end of the chain
\* ------------------------------------------------------------------------
MaxChain == 11

\* the chain's links lie 8 bytes apart, the first one at FnChainOffset
FnChainOffset == 2 * 8

FnLink(k) == FnChainOffset + 8 * k

FnTextSize == FnLink(MaxChain + 1) + 16

\* what the chain ends in
FnEndings ==
  {"prologue", "padded", "cut", "padcut", "skewed", "other", "self", "back",
   "outside"}

FnJmp(rva) == Ins("JMP", 5, <<ImmOp(NatToW(rva))>>)

\* "cut" and "padcut": a prologue with bytes behind it that do not decode
\* PUSH ebp ; MOV ebp, esp, with or without MOV edi, edi in front, on x86;
\* MOV [rsp+8], rcx (or [rsp+16], rdx ; [rsp+8], rcx) ; SUB rsp, 0x28 on x64
FnPrologue(w64, o, padded) ==
  IF w64
  THEN IF padded
       THEN (o :> Ins("MOV", 5, <<MemOp("RSP", "INVALID", 1, NatToW(16)),
                                  RegOp("RDX")>>))
            @@ (o + 5 :> Ins("MOV", 5, <<MemOp("RSP", "INVALID", 1, NatToW(8)),
                                         RegOp("RCX")>>))
            @@ (o + 10 :> Ins("SUB", 4, <<RegOp("RSP"), ImmOp(NatToW(40))>>))
       ELSE (o :> Ins("MOV", 5, <<MemOp("RSP", "INVALID", 1, NatToW(8)),
                                  RegOp("RCX")>>))
            @@ (o + 5 :> Ins("SUB", 4, <<RegOp("RSP"), ImmOp(NatToW(40))>>))
  ELSE IF padded
       THEN (o :> Ins("MOV", 2, <<RegOp("EDI"), RegOp("EDI")>>))
            @@ (o + 2 :> Ins("PUSH", 1, <<RegOp("EBP")>>))
            @@ (o + 3 :> Ins("MOV", 2, <<RegOp("EBP"), RegOp("ESP")>>))
       ELSE (o :> Ins("PUSH", 1, <<RegOp("EBP")>>))
            @@ (o + 1 :> Ins("MOV", 2, <<RegOp("EBP"), RegOp("ESP")>>))

\* a run of two moves whose second displacement is no multiple of 8, with
\* SUB rsp, 0x28 behind it, on x64; the two instructions of the x86 prologue
\* in the other order on x86
FnSkewed(w64, o) ==
  IF w64
  THEN (o :> Ins("MOV", 5, <<MemOp("RSP", "INVALID", 1, NatToW(16)),
                             RegOp("RDX")>>))
       @@ (o + 5 :> Ins("MOV", 5, <<MemOp("RSP", "INVALID", 1, NatToW(5)),
                                    RegOp("RCX")>>))
       @@ (o + 10 :> Ins("SUB", 4, <<RegOp("RSP"), ImmOp(NatToW(40))>>))
  ELSE (o :> Ins("MOV", 2, <<RegOp("EBP"), RegOp("ESP")>>))
       @@ (o + 2 :> Ins("PUSH", 1, <<RegOp("EBP")>>))

FnEnd(w64, o, ending) ==
  CASE ending = "prologue" -> FnPrologue(w64, o, FALSE)
    [] ending = "padded"   -> FnPrologue(w64, o, TRUE)
    [] ending = "cut"      ->
         FnPrologue(w64, o, FALSE)
         @@ ((IF w64 THEN o + 9 ELSE o + 3) :> InvalidInstruction)
    [] ending = "padcut"   ->
         FnPrologue(w64, o, TRUE)
         @@ ((IF w64 THEN o + 14 ELSE o + 5) :> InvalidInstruction)
    [] ending = "skewed"   -> FnSkewed(w64, o)
    [] ending = "other"    -> (o :> Ins("RET", 1, <<>>))
    [] ending = "self"     -> (o :> FnJmp(TextVA + o))
    [] ending = "back"     -> (o :> FnJmp(TextVA + FnChainOffset))
    [] ending = "outside"  -> (o :> FnJmp(TextVA \div 2))

\* n jumps, each to the next link, and the ending at link n
FnChainImage(w64, n, ending) ==
  Image(TextBytes(FnTextSize, <<>>),
        Listing(FnTextSize,
                (0 :> Ins("PUSH", 5, <<ImmOp(Va(w64, TextVA + FnChainOffset))>>))
                @@ (5 :> Ins("RET", 1, <<>>))
                @@ [o \in {FnLink(k) : k \in 0..(n - 1)} |-> FnJmp(TextVA + o + 8)]
                @@ FnEnd(w64, FnLink(n), ending)),
        <<>>)

InitFn ==
  /\ win64 \in BOOLEAN
  /\ pe_image_base_ = ImageBase
  /\ \E n \in 0..MaxChain :
       \E ending \in FnEndings :
         LET image == FnChainImage(win64, n, ending)
         IN  /\ text_code = image.text
             /\ program = image.program
             /\ original_pe_relocs = image.relocs
             /\ original_pe_image = PlainHeader
             /\ new_text_section = image.text
  /\ pc = "decode"
  /\ address_ = NatToW(TextVA)
  /\ code_ = WZero
  /\ disassembly_points_ = <<>>
  /\ disassembly_points_cache_ = {NatToW(TextVA)}
  /\ data_ranges_ = <<>>
  /\ stream_ = <<>>
  /\ vm_loader_section =
       [size  |-> InterpreterSectionSize,
        cells |-> (InterpreterRelocationOffset :> WZero)]
  /\ virtualized_code_section = [size |-> 0, cells |-> <<>>]
  /\ fixups = <<>>
  /\ relocation_rvas_to_remove = <<>>
  /\ vm_section_offsets_to_add_to_relocation_table = <<>>
  /\ virtualized_code_section_offsets_to_add_to_relocation_table = <<>>
  /\ reloc_section = CopyRelocSection(original_pe_relocs)
  /\ new_pe = NoPe
  /\ virtualized_log = <<>>
  /\ reset_log = <<>>

NextFn == DisassembleInstruction

SpecFn == InitFn /\ [][NextFn]_vars

\* ------------------------------------------------------------------------
\* Specification of the branches: the engine stands on a call or a jump; its
\* operand is an immediate target, a register, a memory operand, a slot of
\* a table, or a far pointer of two immediates
\* ------------------------------------------------------------------------
BranchTextSize == 2 * 16

BranchIds == {"CALL", "JMP", "JCC"}

\* where the branch stands in .text
BranchOffsets == {0, 8, 16}

\* targets: the start of .text, inside it, its last byte, the byte behind
\* it, an address in .rdata, one in .reloc and one in the headers
BranchTargets ==
  {TextVA, TextVA + 24, TextVA + BranchTextSize - 1, TextVA + BranchTextSize,
   RdataVA + 4, RelocVA, TextVA \div 2}

BranchInstructions ==
  {Ins(id, 5, <<ImmOp(NatToW(target))>>) :
     id \in BranchIds, target \in BranchTargets}
  \cup {Ins(id, 2, <<RegOp("EAX")>>) : id \in {"CALL", "JMP"}}
  \cup {Ins(id, 6, <<MemOp("EBX", "INVALID", 1, WZero)>>) :
          id \in {"CALL", "JMP"}}
  \cup {Ins("JMP", 7, <<MemOp("INVALID", "EAX", 4,
                              WAdd(ImageBase, NatToW(TextVA + 24)))>>)}
  \cup {Ins(id, 7, <<ImmOp(NatToW(16)), ImmOp(NatToW(TextVA + 24))>>) :
          id \in {"LCALL", "LJMP"}}

BranchImage(o, ins) ==
  Image(TextBytes(BranchTextSize, <<>>),
        Listing(BranchTextSize, (o :> ins)),
        <<>>)

InitBranch ==
  /\ win64 \in BOOLEAN
  /\ pe_image_base_ = ImageBase
  /\ \E ins \in BranchInstructions, o \in BranchOffsets :
       LET image == BranchImage(o, ins)
       IN  /\ text_code = image.text
           /\ program = image.program
           /\ original_pe_relocs = image.relocs
           /\ original_pe_image = PlainHeader
           /\ new_text_section = image.text
           /\ address_ = NatToW(TextVA + o)
           /\ code_ = NatToW(o)
  /\ pc = "decode"
  /\ disassembly_points_ = <<>>
  /\ disassembly_points_cache_ = {NatToW(TextVA)}
  /\ data_ranges_ = <<>>
  /\ stream_ = <<>>
  /\ vm_loader_section =
       [size  |-> InterpreterSectionSize,
        cells |-> (InterpreterRelocationOffset :> WZero)]
  /\ virtualized_code_section = [size |-> 0, cells |-> <<>>]
  /\ fixups = <<>>
  /\ relocation_rvas_to_remove = <<>>
  /\ vm_section_offsets_to_add_to_relocation_table = <<>>
  /\ virtualized_code_section_offsets_to_add_to_relocation_table = <<>>
  /\ reloc_section = CopyRelocSection(original_pe_relocs)
  /\ new_pe = NoPe
  /\ virtualized_log = <<>>
  /\ reset_log = <<>>

NextBranch == DisassembleInstruction

SpecBranch == InitBranch /\ [][NextBranch]_vars

\* ------------------------------------------------------------------------
\* Specification of the MOV of an immediate: the engine stands on
\* MOV reg, imm or MOV [mem], imm
\* ------------------------------------------------------------------------
MovTextSize == 3 * 16

\* where the MOV stands, and where the function prologue of the image is
MovOffsets == {0, 5}

MovPrologueOffset == 2 * 8

MovDestinations ==
  {RegOp("EAX"), MemOp("EBX", "INVALID", 1, NatToW(8)),
   MemOp("INVALID", "INVALID", 1, Va(FALSE, RdataVA + 4))}

\* the rvas the immediate stands for: the prologue, code that is no
\* prologue, the start of .text, the last byte of .text, an address in
\* .reloc and one in the headers
MovTargets ==
  {TextVA + MovPrologueOffset, TextVA + 2 * 16, TextVA,
   TextVA + MovTextSize - 1, RelocVA + 4, TextVA \div 2}

MovImage(w64, o, dest, target, padded) ==
  Image(TextBytes(MovTextSize, <<>>),
        Listing(MovTextSize,
                (o :> Ins("MOV", IF dest.type = "REG" THEN 5 ELSE 7,
                          <<dest, ImmOp(Va(w64, target))>>))
                @@ FnPrologue(w64, MovPrologueOffset, padded)
                @@ (2 * 16 :> Ins("RET", 1, <<>>))),
        <<>>)

InitMov ==
  /\ win64 \in BOOLEAN
  /\ pe_image_base_ = ImageBase
  /\ \E o \in MovOffsets, dest \in MovDestinations, target \in MovTargets,
        padded \in BOOLEAN :
       LET image == MovImage(win64, o, dest, target, padded)
       IN  /\ text_code = image.text
           /\ program = image.program
           /\ original_pe_relocs = image.relocs
           /\ original_pe_image = PlainHeader
           /\ new_text_section = image.text
           /\ address_ = NatToW(TextVA + o)
           /\ code_ = NatToW(o)
  /\ pc = "decode"
  /\ disassembly_points_ = <<>>
  /\ disassembly_points_cache_ = {NatToW(TextVA)}
  /\ data_ranges_ = <<>>
  /\ stream_ = <<>>
  /\ vm_loader_section =
       [size  |-> InterpreterSectionSize,
        cells |-> (InterpreterRelocationOffset :> WZero)]
  /\ virtualized_code_section = [size |-> 0, cells |-> <<>>]
  /\ fixups = <<>>
  /\ relocation_rvas_to_remove = <<>>
  /\ vm_section_offsets_to_add_to_relocation_table = <<>>
  /\ virtualized_code_section_offsets_to_add_to_relocation_table = <<>>
  /\ reloc_section = CopyRelocSection(original_pe_relocs)
  /\ new_pe = NoPe
  /\ virtualized_log = <<>>
  /\ reset_log = <<>>

NextMov == DisassembleInstruction

SpecMov == InitMov /\ [][NextMov]_vars

\* ------------------------------------------------------------------------
\* Specification of the look-aheads: the engine stands on
\* MOV reg, [rcx + rdx*4 + table] with two instructions of some shape behind
\* it, or on a PUSH of an address inside .text
\* ------------------------------------------------------------------------
LookTextSize == 4 * 16

LookTableOffset == LookTextSize - 8

LookPrologueOffset == 2 * 16

LookRetOffset == 3 * 16

LookRegisters == {"RAX", "RDX"}

\* what stands behind the MOV: ADD reg, reg; ADD reg, [mem]; ADD reg, reg
\* behind one other instruction; bytes that do not decode
LookSeconds == {"add", "addmem", "gap", "invalid"}

\* and behind that: JMP reg, CALL reg, or bytes that do not decode
LookThirds == {"JMP", "CALL", "INVALID"}

LookSecond(o, second, reg) ==
  CASE second = "add" ->
         (o :> Ins("ADD", 3, <<RegOp(reg), RegOp("RCX")>>))
    [] second = "addmem" ->
         (o :> Ins("ADD", 3, <<RegOp(reg),
                               MemOp("RCX", "INVALID", 1, WZero)>>))
    [] second = "gap" ->
         (o :> Ins("NOP", 3, <<>>))
         @@ (o + 3 :> Ins("ADD", 3, <<RegOp(reg), RegOp("RCX")>>))
    [] second = "invalid" -> (o :> InvalidInstruction)

LookThird(o, third, reg) ==
  IF third = "INVALID" THEN (o :> InvalidInstruction)
  ELSE (o :> Ins(third, 2, <<RegOp(reg)>>))

LookOpenings(w64) ==
  {(0 :> Ins("MOV", 7, <<RegOp(dest),
                         MemOp("RCX", "RDX", 4,
                               Va(w64, TextVA + LookTableOffset))>>))
   @@ LookSecond(7, second, add)
   @@ LookThird(IF second = "gap" THEN 13 ELSE 10, third, jmp) :
     dest \in LookRegisters, add \in LookRegisters, jmp \in LookRegisters,
     second \in LookSeconds, third \in LookThirds}
  \cup {(0 :> Ins("PUSH", 5, <<ImmOp(Va(w64, TextVA + target))>>)) :
          target \in {LookPrologueOffset, LookRetOffset}}

\* the prologue, a RET, and a table of one entry in the last bytes of .text
LookImage(w64, opening, padded) ==
  Image(TextBytes(LookTextSize,
                  (LookTableOffset :> Va(w64, TextVA + LookRetOffset))
                  @@ (LookTableOffset + 4 :> WZero)),
        Listing(LookTextSize,
                opening
                @@ FnPrologue(w64, LookPrologueOffset, padded)
                @@ (LookRetOffset :> Ins("RET", 1, <<>>))),
        <<>>)

InitLook ==
  /\ win64 \in BOOLEAN
  /\ pe_image_base_ = ImageBase
  /\ \E opening \in LookOpenings(win64), padded \in BOOLEAN :
       LET image == LookImage(win64, opening, padded)
       IN  /\ text_code = image.text
           /\ program = image.program
           /\ original_pe_relocs = image.relocs
           /\ original_pe_image = PlainHeader
           /\ new_text_section = image.text
  /\ pc = "decode"
  /\ address_ = NatToW(TextVA)
  /\ code_ = WZero
  /\ disassembly_points_ = <<>>
  /\ disassembly_points_cache_ = {NatToW(TextVA)}
  /\ data_ranges_ = <<>>
  /\ stream_ = <<>>
  /\ vm_loader_section =
       [size  |-> InterpreterSectionSize,
        cells |-> (InterpreterRelocationOffset :> WZero)]
  /\ virtualized_code_section = [size |-> 0, cells |-> <<>>]
  /\ fixups = <<>>
  /\ relocation_rvas_to_remove = <<>>
  /\ vm_section_offsets_to_add_to_relocation_table = <<>>
  /\ virtualized_code_section_offsets_to_add_to_relocation_table = <<>>
  /\ reloc_section = CopyRelocSection(original_pe_relocs)
  /\ new_pe = NoPe
  /\ virtualized_log = <<>>
  /\ reset_log = <<>>

NextLook == DisassembleInstruction

SpecLook == InitLook /\ [][NextLook]_vars

\* ------------------------------------------------------------------------
\* Claims on the function-prologue test (SpecFn)
\* ------------------------------------------------------------------------
\* the number of jumps of the chain in front of its ending
FnJumps ==
  Cardinality({k \in 0..(MaxChain - 1) :
                 /\ program[FnLink(k) + 1].id = "JMP"
                 /\ program[FnLink(k) + 1].ops[1].imm
                      = NatToW(TextVA + FnLink(k + 1))})

\* the pushed address was accepted as a function
FnAccepted == NatToW(TextVA + FnChainOffset) \in disassembly_points_cache_

\* C11: the function-prologue test returns on every input, and it accepts a
\* target only through at most 10 followed jumps, on x86 and on x64.
C11_PrologueTestBounded ==
  /\ pc # "overflow"
  /\ FnAccepted => FnJumps <= kMaxJumpRecursion

\* the instructions at the end of the chain of jumps
FnAt(o) == program[FnLink(FnJumps) + o + 1]

IsPushEbp(ins) ==
  ins.id = "PUSH" /\ Len(ins.ops) = 1 /\ ins.ops[1].reg = "EBP"

IsMovEbpEsp(ins) ==
  /\ ins.id = "MOV" /\ Len(ins.ops) = 2
  /\ ins.ops[1].reg = "EBP" /\ ins.ops[2].reg = "ESP"

IsMovEdiEdi(ins) ==
  /\ ins.id = "MOV" /\ Len(ins.ops) = 2
  /\ ins.ops[1].reg = "EDI" /\ ins.ops[2].reg = "EDI"

\* PUSH ebp ; MOV ebp, esp (55 8B EC), or the same behind MOV edi, edi
FnEndsInPrologueX86 ==
  \/ IsPushEbp(FnAt(0)) /\ IsMovEbpEsp(FnAt(1))
  \/ IsMovEdiEdi(FnAt(0)) /\ IsPushEbp(FnAt(2)) /\ IsMovEbpEsp(FnAt(3))

\* the engine has gone over the PUSH of the chain's address
FnTested == address_ # NatToW(TextVA)

\* C21: on x86 a target that, behind at most 10 direct jumps inside .text,
\* begins with PUSH ebp ; MOV ebp, esp, with or without MOV edi, edi in
\* front, passes the function-prologue test whatever follows the MOV ebp,
\* esp.
C21_PrologueX86Accepted ==
  (/\ ~ win64
   /\ FnTested
   /\ FnJumps <= kMaxJumpRecursion
   /\ FnEndsInPrologueX86) => FnAccepted

\* MOV [rsp+disp], reg with disp a multiple of 8
IsMovRspDisp8(ins) ==
  /\ ins.id = "MOV" /\ Len(ins.ops) = 2
  /\ ins.ops[1].type = "MEM" /\ ins.ops[1].base = "RSP"
  /\ ins.ops[2].type = "REG"
  /\ WToNat(ins.ops[1].disp) % 8 = 0

\* the offset behind k moves of that kind from offset o on, -1 if there are
\* fewer
RECURSIVE FnRunEnd(_, _)
FnRunEnd(o, k) ==
  IF k = 0 THEN o
  ELSE IF o < Len(program) /\ IsMovRspDisp8(program[o + 1])
  THEN FnRunEnd(o + program[o + 1].size, k - 1)
  ELSE 0 - 1

\* SUB rsp, imm is among the k instructions from offset o on
RECURSIVE FnSubWithin(_, _)
FnSubWithin(o, k) ==
  /\ k > 0
  /\ o >= 0 /\ o < Len(program)
  /\ program[o + 1].id # "INVALID"
  /\ \/ /\ program[o + 1].id = "SUB" /\ Len(program[o + 1].ops) = 2
        /\ program[o + 1].ops[1].reg = "RSP"
        /\ program[o + 1].ops[2].type = "IMM"
     \/ FnSubWithin(o + program[o + 1].size, k - 1)

\* the end of the chain is a run of moves to [rsp+disp] with displacements
\* that are multiples of 8, first_disp/8 - 1 of them behind the first one,
\* and SUB rsp, imm among the 10 instructions behind the run
FnEndsInPrologueX64 ==
  LET o == FnLink(FnJumps)
  IN  /\ IsMovRspDisp8(program[o + 1])
      /\ FnSubWithin(FnRunEnd(o, WToNat(program[o + 1].ops[1].disp) \div 8),
                     10)

\* C22: on x64 the function-prologue test accepts a target only if, behind
\* the direct jumps it follows, the target starts with a run of
\* MOV [rsp+disp], reg whose displacements are multiples of 8, with
\* first_disp/8 - 1 further moves behind the first, and SUB rsp, imm among
\* the next 10 instructions; every other target is rejected.
C22_PrologueX64Strict ==
  (win64 /\ FnAccepted) => FnEndsInPrologueX64

\* ------------------------------------------------------------------------
\* Claims on the jump-table parser (SpecJT)
\* ------------------------------------------------------------------------
\* the table the instruction at the entry point refers to: its rva, and its
\* slots up to the end of .text, as they stand in the image
JtTableRva ==
  LET operand == program[1].ops[Len(program[1].ops)]
  IN  WToNat(IF win64 THEN operand.disp ELSE WSub(operand.disp, ImageBase))

JtSlotCount == (TextVA + Len(text_code) - JtTableRva) \div 4

JtSlot(k) == ReadU32(text_code, (JtTableRva - TextVA) + 4 * (k - 1))

\* the rva a slot value stands for
JtEntryRva(v) == IF win64 THEN v ELSE WSub(v, ImageBase)

\* a stopping entry: 0, 0xCCCCCCCC, or an entry rva outside .text
JtStops(v) ==
  \/ v = <<0, 0>>
  \/ v = <<52428, 52428>>
  \/ JtEntryRva(v)[1] # 0
  \/ JtEntryRva(v)[2] < TextVA
  \/ JtEntryRva(v)[2] >= TextVA + Len(text_code)

JtHasStop == \E k \in 1..JtSlotCount : JtStops(JtSlot(k))

\* index of the first stopping slot
JtFirstStop ==
  CHOOSE k \in 1..JtSlotCount :
    JtStops(JtSlot(k)) /\ \A j \in 1..(k - 1) : ~ JtStops(JtSlot(j))

\* the entry rvas in front of the first stopping slot, in table order
JtEntries == [k \in 1..(JtFirstStop - 1) |-> JtEntryRva(JtSlot(k))]

\* what enqueueing a list of rvas appends to the work list: every rva that
\* has not been seen, once
RECURSIVE JtEnqueued(_, _)
JtEnqueued(rvas, seen) ==
  IF rvas = <<>> THEN <<>>
  ELSE IF Head(rvas) \in seen THEN JtEnqueued(Tail(rvas), seen)
  ELSE <<Head(rvas)>> \o JtEnqueued(Tail(rvas), seen \cup {Head(rvas)})

JtIsS1 ==
  /\ ~ win64
  /\ JtTableRva = TextVA + 32
  /\ JtSlot(1) = <<64, 4144>>
  /\ JtSlot(2) = <<64, 4160>>
  /\ JtSlot(3) = <<0, 0>>

JtParsed == pc = "decode" /\ JtHasStop /\ pc' # "decode"

\* C8: the parser enqueues exactly the entries in front of the first
\* stopping slot (0, 0xCCCCCCCC, entry rva outside .text), in table order,
\* as v on x64 and v - image base on x86, and nothing from the stopping
\* slot on; enqueueing an rva that was enqueued before adds nothing.  The
\* table 0x00401030, 0x00401040, 0 with image base 0x400000 gives exactly
\* 0x1030 and 0x1040.
C8_EnqueuesEntriesBeforeStop ==
  [][JtParsed =>
       /\ disassembly_points_cache_' =
            disassembly_points_cache_ \cup Range(JtEntries)
       /\ [k \in 1..Len(disassembly_points_') |-> disassembly_points_'[k].rva]
            = JtEnqueued(JtEntries, disassembly_points_cache_)
       /\ \A k \in 1..Len(disassembly_points_') :
            disassembly_points_'[k].code =
              WSub(disassembly_points_'[k].rva, NatToW(TextVA))
       /\ JtIsS1 =>
            /\ disassembly_points_cache_' =
                 disassembly_points_cache_ \cup {NatToW(4144), NatToW(4160)}
            /\ (NatToW(4144) \notin disassembly_points_cache_) =>
                 [k \in 1..Len(disassembly_points_') |->
                    disassembly_points_'[k].rva]
                   = <<NatToW(4144), NatToW(4160)>>]_vars

C8_Witness ==
  /\ pc = "pop"
  /\ JtIsS1
  /\ Len(disassembly_points_) = 2
  /\ disassembly_points_[1].rva = NatToW(4144)
  /\ disassembly_points_[2].rva = NatToW(4160)
  /\ Cardinality(disassembly_points_cache_) = 3

\* C9 (amended): the parser records one data range that starts at the table
\* rva and ends behind the last entry in front of the stopping slot; the
\* stopping slot is not part of it.  The x86 table at 0x1020 holding
\* 0x00401030, 0x00401040, 0 gives [0x1020, 0x1028).
C9_DataRangeOfEntries ==
  [][JtParsed =>
       /\ Len(data_ranges_') = Len(data_ranges_) + 1
       /\ data_ranges_'[Len(data_ranges_')] =
            [begin_address |-> NatToW(JtTableRva),
             end_address   |-> NatToW(JtTableRva + 4 * Len(JtEntries))]
       /\ JtIsS1 =>
            data_ranges_'[Len(data_ranges_')] =
              [begin_address |-> NatToW(4128), end_address |-> NatToW(4136)]]_vars

C9_Witness ==
  /\ pc = "pop"
  /\ JtIsS1
  /\ data_ranges_ = <<[begin_address |-> NatToW(4128),
                       end_address |-> NatToW(4136)]>>

\* C9 as stated: for the x86 table at 0x1020 holding 0x00401030, 0x00401040,
\* 0 the recorded data range is [0x1020, 0x102C).
C9_AsStated ==
  (pc = "pop" /\ JtIsS1) =>
    data_ranges_ = <<[begin_address |-> NatToW(4128),
                      end_address |-> NatToW(4140)]>>

\* C10: on a table with a stopping slot the parse comes to its end at the
\* first such slot: it reads no slot behind it (a table whose stopping slot
\* is the last one of .text is never read past the section), and the
\* cursor stands on the stopping slot when the range is recorded.
C10_StopsAtFirstStop ==
  [][JtParsed =>
       /\ pc' = "pop"
       /\ Len(data_ranges_') = 1
       /\ WSub(data_ranges_'[1].end_address, data_ranges_'[1].begin_address)
            = NatToW(4 * (JtFirstStop - 1))]_vars

C10_Witness ==
  /\ pc = "pop"
  /\ JtTableRva = TextVA + Len(text_code) - 4 * MaxTableLen
  /\ JtHasStop
  /\ JtFirstStop = MaxTableLen
  /\ Len(disassembly_points_) = MaxTableLen - 1

\* ------------------------------------------------------------------------
\* Claims on the protector run (Spec)
\* ------------------------------------------------------------------------
RunIsOver == pc \in {"remove", "assemble", "fix", "done"}

\* a later rollback callback at the address of a virtualization
RolledBackLater(v) ==
  \E k \in 1..Len(reset_log) :
    /\ reset_log[k].address = v.address
    /\ reset_log[k].seq > v.seq

\* the rollback r undid a virtualization at its address, and nothing that
\* overlaps the instruction was virtualized after it
RollbackOfVirtualized(r) ==
  /\ \E k \in 1..Len(virtualized_log) :
       /\ virtualized_log[k].address = r.address
       /\ virtualized_log[k].seq < r.seq
  /\ \A k \in 1..Len(virtualized_log) :
       virtualized_log[k].seq > r.seq =>
         \/ virtualized_log[k].address + virtualized_log[k].size <= r.address
         \/ virtualized_log[k].address >= r.address + r.size

\* the relocation directory holds a non-padding entry for the rva
HasRelocationEntry(blocks, rva) ==
  \E b \in 1..Len(blocks) :
    \E e \in 1..Len(blocks[b].relocs) :
      /\ blocks[b].relocs[e].type # "ABSOLUTE"
      /\ WAdd(blocks[b].VirtualAddress, NatToW(blocks[b].relocs[e].offset))
           = NatToW(rva)

\* C1: for every virtualized instruction that is not rolled back afterwards
\* the finished .text holds E9 at its address and, behind it, the 32-bit
\* value loader offset + VM loader section VA - (address + 5).
C1_JumpPatch ==
  (pc = "done") =>
    \A k \in 1..Len(virtualized_log) :
      LET v   == virtualized_log[k]
          off == RvaToTextOffset(v.address)
      IN  ~ RolledBackLater(v) =>
            /\ new_pe.text[off + 1] = 233
            /\ ReadU32(new_pe.text, off + 1) =
                 WSub(WAdd(NatToW(v.loader_shellcode_offset),
                           new_pe.vm_loader_va),
                      NatToW(v.address + 5))

\* C4: when the disassembly run is over, no virtualized instruction has its
\* address inside a recorded data range.
C4_NoneVirtualizedInDataRange ==
  RunIsOver =>
    \A k \in 1..Len(virtualized_log) :
      \A j \in 1..Len(data_ranges_) :
        ~ RolledBackLater(virtualized_log[k]) =>
          ~ /\ WLe(data_ranges_[j].begin_address,
                   NatToW(virtualized_log[k].address))
            /\ WLt(NatToW(virtualized_log[k].address),
                   data_ranges_[j].end_address)

\* C5: a relocation rva that a virtualization queued for removal and that a
\* later rollback covering it restored still has a non-padding entry in the
\* relocation directory of the output.
C5_RestoredRelocationKept ==
  (pc = "done") =>
    \A k \in 1..Len(virtualized_log) :
      \A rva \in Range(virtualized_log[k].relocs) :
        (\E j \in 1..Len(reset_log) :
           /\ reset_log[j].seq > virtualized_log[k].seq
           /\ rva \in Range(reset_log[j].relocs))
        => HasRelocationEntry(new_pe.reloc, rva)

\* C6: after a rollback of a virtualized instruction at R with size s the
\* bytes [R, R + s) of the finished .text are the original bytes.
C6_RolledBackBytesOriginal ==
  (pc = "done") =>
    \A j \in 1..Len(reset_log) :
      RollbackOfVirtualized(reset_log[j]) =>
        \A b \in 1..reset_log[j].size :
          new_pe.text[RvaToTextOffset(reset_log[j].address) + b]
            = text_code[RvaToTextOffset(reset_log[j].address) + b]

\* C7: after a rollback of a virtualized instruction at R no fixup targets
\* the .text patch site of R and no relocation rva inside the instruction
\* is queued for removal.
C7_RollbackUndoesRecords ==
  \A j \in 1..Len(reset_log) :
    RollbackOfVirtualized(reset_log[j]) =>
      /\ \A k \in 1..Len(fixups) :
           ~ /\ fixups[k].desc.offset_type = "TextSection"
             /\ fixups[k].offset = RvaToTextOffset(reset_log[j].address) + 1
      /\ \A k \in 1..Len(relocation_rvas_to_remove) :
           ~ /\ relocation_rvas_to_remove[k] >= reset_log[j].address
             /\ relocation_rvas_to_remove[k]
                  < reset_log[j].address + reset_log[j].size

\* C23: in one run no instruction address is virtualized more than once,
\* also when a stream falls through into an address that is enqueued as a
\* branch target: the fixup list holds at most one TextSection fixup per
\* .text offset and there is at most one loader-shellcode record per
\* instruction address.
C23_VirtualizedOnce ==
  /\ \A i, k \in 1..Len(fixups) :
       (/\ fixups[i].desc.offset_type = "TextSection"
        /\ fixups[k].desc.offset_type = "TextSection"
        /\ fixups[i].offset = fixups[k].offset) => i = k
  /\ \A i, k \in 1..Len(virtualized_log) :
       virtualized_log[i].address = virtualized_log[k].address => i = k

\* the points a step pushed: those of the list behind the ones it kept
PushedPoints ==
  IF Len(disassembly_points_') > Len(disassembly_points_)
  THEN {disassembly_points_'[k] :
          k \in (Len(disassembly_points_) + 1)..Len(disassembly_points_')}
  ELSE {}

\* every rva of the work list is in the cache, and no rva is there twice
WorkListInCache ==
  /\ \A k \in 1..Len(disassembly_points_) :
       disassembly_points_[k].rva \in disassembly_points_cache_
  /\ \A i, k \in 1..Len(disassembly_points_) :
       disassembly_points_[i].rva = disassembly_points_[k].rva => i = k

\* a step pushes only rvas that were not in the cache, each of them once,
\* and puts them into the cache; the cache loses nothing, also when a point
\* is popped
PushesOnlyNewRvas ==
  /\ disassembly_points_cache_ \subseteq disassembly_points_cache_'
  /\ \A p \in PushedPoints :
       /\ p.rva \notin disassembly_points_cache_
       /\ p.rva \in disassembly_points_cache_'
  /\ Cardinality({p.rva : p \in PushedPoints})
       = Len(disassembly_points_') - Len(disassembly_points_)
       \/ PushedPoints = {}
  /\ Cardinality(disassembly_points_cache_')
       >= Cardinality(disassembly_points_cache_)
            + Cardinality(PushedPoints)

\* C24: an rva is pushed onto the work list at most once per run: a point
\* is pushed only if its rva is not in the dedup cache, and is inserted
\* then; the cache never loses an element, so every rva of the work list is
\* in the cache.
C24_PushedAtMostOnce ==
  [] WorkListInCache /\ [][PushesOnlyNewRvas]_vars

\* the run is over on the image whose three branches have one target: one
\* push, and the popped rvas are still in the cache
C24_Witness ==
  /\ pc = "remove"
  /\ disassembly_points_ = <<>>
  /\ disassembly_points_cache_ = {NatToW(TextVA), NatToW(TextVA + 4)}
  /\ \A o \in {0, 2, 4} :
       /\ program[o + 1].id \in {"JCC", "JMP"}
       /\ program[o + 1].ops[1].imm = NatToW(TextVA + 4)

\* where OrigAddr of the loader shellcode of the virtualization v lies in
\* the loader section
OrigAddrOffset(v) == v.loader_shellcode_offset + LoaderShellcode.OrigAddr

\* the displacement that leads from behind the 4 bytes of OrigAddr in the
\* finished loader section to the end of the instruction of v
JumpBackDisplacement(v) ==
  WSub(NatToW(v.address + v.size),
       WAdd(WAdd(new_pe.vm_loader_va, NatToW(OrigAddrOffset(v))), NatToW(4)))

\* C30: for every virtualized instruction, after the fixups the OrigAddr
\* value of its loader shellcode is (address + size) - (VM loader section VA
\* + loader offset + offset of OrigAddr + 4) modulo 2^32, the displacement
\* with which the jump that holds it lands behind the instruction.
C30_JumpBackDisplacement ==
  (pc = "done") =>
    \A k \in 1..Len(virtualized_log) :
      new_pe.loader[OrigAddrOffset(virtualized_log[k])]
        = JumpBackDisplacement(virtualized_log[k])

\* the run is over with two loader shellcodes in the loader section, and
\* the second one's OrigAddr holds the displacement
C30_Witness ==
  /\ pc = "done"
  /\ Len(virtualized_log) = 2
  /\ virtualized_log[2].loader_shellcode_offset
       = virtualized_log[1].loader_shellcode_offset + LoaderShellcode.size
  /\ new_pe.loader[OrigAddrOffset(virtualized_log[2])]
       = JumpBackDisplacement(virtualized_log[2])
  /\ new_pe.loader[OrigAddrOffset(virtualized_log[2])]
       # WSub(NatToW(virtualized_log[2].address + virtualized_log[2].size),
              NatToW(OrigAddrOffset(virtualized_log[2]) + 4))

\* the three fixups of the virtualization v
FixupsOfVirtualization(v) ==
  <<[offset |-> v.loader_shellcode_offset + LoaderShellcode.OrigAddr,
     desc |-> [offset_type |-> "VmLoaderSection",
               operation |-> "SubtractVmLoaderSectionVirtualAddress",
               size |-> 4]],
    [offset |-> v.loader_shellcode_offset + LoaderShellcode.VmCodeAddr,
     desc |-> [offset_type |-> "VmLoaderSection",
               operation |-> "AddVirtualizedCodeSectionVirtualAddress",
               size |-> 4]],
    [offset |-> v.address - TextVA + 1,
     desc |-> [offset_type |-> "TextSection",
               operation |-> "AddVmLoaderSectionVirtualAddress",
               size |-> 4]]>>

\* a step that virtualizes an instruction appends the three fixups of the
\* virtualization and the offset of its ImageBase site, and nothing else
VirtualizationRecords ==
  (Len(virtualized_log') = Len(virtualized_log) + 1) =>
    LET v == virtualized_log'[Len(virtualized_log')]
    IN  /\ fixups' = fixups \o FixupsOfVirtualization(v)
        /\ vm_section_offsets_to_add_to_relocation_table' =
             Append(vm_section_offsets_to_add_to_relocation_table,
                    v.loader_shellcode_offset + LoaderShellcode.ImageBase)

\* while the disassembly runs the two lists hold their first element, of
\* the interpreter's relocation, and 3 fixups and 1 offset per
\* virtualization; no fixup stands on a VmCoreFunction site
RecordsPerVirtualization ==
  (pc \in {"pop", "decode", "invalid", "remove"}) =>
    /\ Len(fixups) = 1 + 3 * Len(virtualized_log)
    /\ Len(vm_section_offsets_to_add_to_relocation_table)
         = 1 + Len(virtualized_log)
    /\ \A k \in 1..Len(fixups) :
         \A n \in 1..Len(virtualized_log) :
           ~ /\ fixups[k].desc.offset_type = "VmLoaderSection"
             /\ fixups[k].offset
                  = virtualized_log[n].loader_shellcode_offset
                      + LoaderShellcode.VmCoreFunction

\* C31: each virtualization of an instruction records exactly three
\* fixups, all of width 4 (OrigAddr with SubtractVmLoaderVA and VmCodeAddr
\* with AddVirtualizedCodeVA in the VM loader section, the patch site with
\* AddVmLoaderVA in .text), exactly one VM-loader relocation offset (the
\* ImageBase site) and no fixup for VmCoreFunction: after n virtualizations
\* the fixup list has grown by 3n and the relocation list by n.
C31_ThreeFixupsPerVirtualization ==
  [] RecordsPerVirtualization /\ [][VirtualizationRecords]_vars

\* two virtualizations were recorded: six fixups and two offsets behind
\* those of the interpreter
C31_Witness ==
  /\ pc = "remove"
  /\ Len(virtualized_log) = 2
  /\ Len(fixups) = 7
  /\ Len(vm_section_offsets_to_add_to_relocation_table) = 3

\* ------------------------------------------------------------------------
\* Claims on the relocation rebuild (SpecReloc)
\* ------------------------------------------------------------------------
\* the blocks AddRelocations appended for one fixup operation, in order
AddedBlocks(blocks, fx, operation) ==
  SelectSeq(blocks,
            LAMBDA b : /\ b.added
                       /\ \E k \in 1..Len(fx) :
                            /\ fx[k].offset = b.at
                            /\ fx[k].desc.offset_type = "RelocSection"
                            /\ fx[k].desc.operation = operation)

VmAddedBlocks ==
  AddedBlocks(reloc_section.blocks, fixups, "AddVmLoaderSectionVirtualAddress")

PagesOf(offsets) ==
  SetToSortedSeq({AlignDown(offsets[k], k4kPage) : k \in 1..Len(offsets)})

\* the block the 4K grouping asks for on one page of a sorted offset list
ExpectedBlockRelocs(offsets, page) ==
  LET in_page == SelectSeq(offsets, LAMBDA o : AlignDown(o, k4kPage) = page)
      entries == [k \in 1..Len(in_page) |->
                    [type |-> RelocationType, offset |-> in_page[k] - page]]
  IN  IF Len(entries) % 2 # 0 THEN Append(entries, PadRelocation) ELSE entries

\* C2: in the finished output the relocation blocks are in strictly
\* ascending VirtualAddress, every entry offset is below 4096, and every
\* block appended by AddRelocations holds an even number of entries.
C2_RelocBlocksAscendingEven ==
  (pc = "done") =>
    /\ \A b \in 1..(Len(new_pe.reloc) - 1) :
         WLt(new_pe.reloc[b].VirtualAddress, new_pe.reloc[b + 1].VirtualAddress)
    /\ \A b \in 1..Len(new_pe.reloc) :
         /\ \A e \in 1..Len(new_pe.reloc[b].relocs) :
              new_pe.reloc[b].relocs[e].offset < k4kPage
         /\ new_pe.reloc[b].added => Len(new_pe.reloc[b].relocs) % 2 = 0
         /\ new_pe.reloc[b].SizeOfBlock = NatToW(BlockBytes(new_pe.reloc[b]))

C2_Witness ==
  /\ pc = "done"
  /\ original_pe_relocs # <<>>
  /\ Len(VmAddedBlocks) >= 2
  /\ Len(new_pe.reloc) > Len(original_pe_relocs) + Len(VmAddedBlocks)

\* C3 (amended): AddRelocations starts one block per 4K page of the sorted
\* offsets, the first at align_down(offsets[0], 4096), each holding the
\* offsets of its page relative to the page and one type-0 pad entry exactly
\* when their number is odd; [0x100, 0x500, 0x1010] gives the block at 0x0
\* with the two entries 0x100, 0x500 and no pad, and the block at 0x1000
\* with the entry 0x10 and one pad.
C3_PageGrouping ==
  (pc # "assemble") =>
    LET L == vm_section_offsets_to_add_to_relocation_table
        B == VmAddedBlocks
    IN  /\ Len(B) = Len(PagesOf(L))
        /\ \A k \in 1..Len(B) :
             /\ B[k].VirtualAddress = NatToW(PagesOf(L)[k])
             /\ B[k].relocs = ExpectedBlockRelocs(L, PagesOf(L)[k])
        /\ (L = <<256, 1280, 4112>>) =>
             /\ Len(B) = 2
             /\ B[1].VirtualAddress = NatToW(0)
             /\ B[1].relocs = <<[type |-> RelocationType, offset |-> 256],
                                [type |-> RelocationType, offset |-> 1280]>>
             /\ B[2].VirtualAddress = NatToW(4096)
             /\ B[2].relocs = <<[type |-> RelocationType, offset |-> 16],
                                PadRelocation>>

C3_Witness ==
  /\ pc = "fix"
  /\ vm_section_offsets_to_add_to_relocation_table = <<256, 1280, 4112>>
  /\ Len(VmAddedBlocks) = 2

\* C3 as stated: for [0x100, 0x500, 0x1010] the block at 0x0 holds the
\* entries 0x100, 0x500 plus one type-0 pad entry.
C3_AsStated ==
  (pc # "assemble"
     /\ vm_section_offsets_to_add_to_relocation_table = <<256, 1280, 4112>>) =>
    /\ Len(VmAddedBlocks) = 2
    /\ VmAddedBlocks[1].relocs =
         <<[type |-> RelocationType, offset |-> 256],
           [type |-> RelocationType, offset |-> 1280], PadRelocation>>
    /\ VmAddedBlocks[2].relocs =
         <<[type |-> RelocationType, offset |-> 16], PadRelocation>>

\* the blocks of .reloc that AddRelocations appended, as indices of the table
AppendedBlocks(rs) == {k \in 1..Len(rs.blocks) : rs.blocks[k].added}

\* the offset in .reloc of the VirtualAddress field, the first field, of the
\* k-th block
PositionOfBlock(rs, k) == SumBlockBytes(SubSeq(rs.blocks, 1, k - 1))

\* the byte length of the k-th block: header and entries, the pad among them
BlockLength(rs, k) == 8 + 2 * Len(rs.blocks[k].relocs)

RECURSIVE AppendedLength(_, _)
AppendedLength(rs, k) ==
  IF k = 0 THEN 0
  ELSE AppendedLength(rs, k - 1)
         + (IF rs.blocks[k].added THEN BlockLength(rs, k) ELSE 0)

\* the two calls of AddRelocations in the assembly: rs0 and fx0 are .reloc
\* and the fixup list before them, rs and fx after them
OneFixupPerFlushedBlock(rs0, fx0, rs, fx) ==
  LET n0 == Len(rs0.blocks)
      n  == Len(rs.blocks)
  IN  /\ n >= n0
      /\ SubSeq(rs.blocks, 1, n0) = rs0.blocks
      /\ AppendedBlocks(rs) = (n0 + 1)..n
      /\ Len(fx) = Len(fx0) + (n - n0)
      /\ SubSeq(fx, 1, Len(fx0)) = fx0
      /\ \A k \in 1..(n - n0) :
           /\ fx[Len(fx0) + k].desc.offset_type = "RelocSection"
           /\ fx[Len(fx0) + k].offset = PositionOfBlock(rs, n0 + k)
      /\ rs.dir_size = rs0.dir_size + AppendedLength(rs, n)

EmptyListAddsNothing(rs0, fx0, rs, fx) ==
  /\ vm_section_offsets_to_add_to_relocation_table = <<>>
       => \A k \in (Len(fx0) + 1)..Len(fx) :
            fx[k].desc.operation # "AddVmLoaderSectionVirtualAddress"
  /\ virtualized_code_section_offsets_to_add_to_relocation_table = <<>>
       => \A k \in (Len(fx0) + 1)..Len(fx) :
            fx[k].desc.operation # "AddVirtualizedCodeSectionVirtualAddress"
  /\ (/\ vm_section_offsets_to_add_to_relocation_table = <<>>
      /\ virtualized_code_section_offsets_to_add_to_relocation_table = <<>>)
       => rs = rs0 /\ fx = fx0

\* C33: every block AddRelocations flushes has exactly one fixup of origin
\* RelocSection, in the order of the blocks, whose offset is the position of
\* the block's VirtualAddress field in .reloc; the directory's Size grows by
\* the byte lengths of the appended blocks, 8 + 2 x entries with the pad;
\* a call with an empty offset list appends no block and no fixup and
\* leaves .reloc and the Size as they are.
C33_OneFixupPerFlushedBlock ==
  [][pc = "assemble" =>
       /\ OneFixupPerFlushedBlock(CopyRelocSection(original_pe_relocs),
                                  fixups, reloc_section', fixups')
       /\ EmptyListAddsNothing(CopyRelocSection(original_pe_relocs),
                               fixups, reloc_section', fixups')]_vars

\* a table of two blocks got three more, one of them with a pad, from both
\* offset lists
C33_Witness ==
  /\ pc = "fix"
  /\ Len(original_pe_relocs) = 2
  /\ Len(reloc_section.blocks) = 2 + 3
  /\ Len(fixups) = 3
  /\ fixups[1].desc.operation = "AddVmLoaderSectionVirtualAddress"
  /\ fixups[3].desc.operation = "AddVirtualizedCodeSectionVirtualAddress"
  /\ \E k \in AppendedBlocks(reloc_section) :
       PadRelocation \in Range(reloc_section.blocks[k].relocs)
  /\ fixups[3].offset = PositionOfBlock(reloc_section, 2 + 3)

\* ------------------------------------------------------------------------
\* Claims on the fixup pass (SpecReloc)
\* ------------------------------------------------------------------------
\* the cells and bytes of an assembled image
ImageBytes(pe) == <<pe.image, pe.text, pe.reloc, pe.loader, pe.vcode>>

\* the file offsets of a directory's entry and of its data
DirectoryCells(image, index) ==
  {DataDirectoryOffset(index), DataDirectoryOffset(index) + 4}
  \cup {k \in DOMAIN image :
          /\ k >= RvaToFileOffset(WToNat(DirectoryVirtualAddress(image, index)))
          /\ k < RvaToFileOffset(WToNat(DirectoryVirtualAddress(image, index)))
                   + WToNat(DirectorySize(image, index))}

NullifiedCells(image) ==
  DirectoryCells(image, IMAGE_DIRECTORY_ENTRY_LOAD_CONFIG)
  \cup DirectoryCells(image, IMAGE_DIRECTORY_ENTRY_DEBUG)

FixupWindowsDisjoint(f, g) ==
  \/ f.desc.offset_type # g.desc.offset_type
  \/ f.offset + f.desc.size <= g.offset
  \/ g.offset + g.desc.size <= f.offset

ReverseFixups(fx) == [k \in 1..Len(fx) |-> fx[Len(fx) + 1 - k]]

SwapFixups(fx, i) ==
  [k \in 1..Len(fx) |-> IF k = i THEN fx[i + 1]
                        ELSE IF k = i + 1 THEN fx[i] ELSE fx[k]]

\* C13: in the fixup list handed to FixFinishedPe the byte windows of
\* distinct fixups are pairwise disjoint, and the list applied in another
\* order (reversed, or with two neighbours swapped) gives the same image.
C13_FixupsOrderIndependent ==
  pc = "fix" =>
    /\ \A i, j \in 1..Len(fixups) :
         i < j => FixupWindowsDisjoint(fixups[i], fixups[j])
    /\ ApplyFixups(new_pe, ReverseFixups(fixups)) = ApplyFixups(new_pe, fixups)
    /\ \A i \in 1..(Len(fixups) - 1) :
         ApplyFixups(new_pe, SwapFixups(fixups, i)) = ApplyFixups(new_pe, fixups)

\* ------------------------------------------------------------------------
\* Claims on FixFinishedPe (SpecFix)
\* ------------------------------------------------------------------------
\* one byte of an assembled image, by origin and offset inside the origin;
\* of .reloc the block headers
RegionCells(pe, offset_type) ==
  CASE offset_type = "VmLoaderSection" -> pe.loader
    [] offset_type = "VirtualizedCodeSection" -> pe.vcode
    [] offset_type = "Beginning" -> pe.image

RelocHeaderByte(blocks, o) ==
  LET b == CHOOSE b \in 1..Len(blocks) :
             blocks[b].at <= o /\ o < blocks[b].at + 8
  IN  (WBytes(blocks[b].VirtualAddress)
       \o WBytes(blocks[b].SizeOfBlock))[o - blocks[b].at + 1]

RegionByte(pe, offset_type, o) ==
  CASE offset_type = "TextSection" -> pe.text[o + 1]
    [] offset_type = "RelocSection" -> RelocHeaderByte(pe.reloc, o)
    [] OTHER ->
         WBytes(RegionCells(pe, offset_type)[4 * (o \div 4)])[(o % 4) + 1]

RegionOffsets(pe, offset_type) ==
  CASE offset_type = "TextSection" -> 0..(Len(pe.text) - 1)
    [] offset_type = "RelocSection" ->
         {pe.reloc[b].at + j : b \in 1..Len(pe.reloc), j \in 0..7}
    [] OTHER ->
         {k + j : k \in DOMAIN RegionCells(pe, offset_type), j \in 0..3}

\* the little-endian bytes a fixup is about
FixupWindow(pe, f) ==
  [j \in 1..f.desc.size |->
     RegionByte(pe, f.desc.offset_type, f.offset + j - 1)]

\* the section VirtualAddress as little-endian bytes of the fixup's width
VirtualAddressBytes(va, size) ==
  [j \in 1..size |-> IF j <= 4 THEN WBytes(va)[j] ELSE 0]

\* a + b and a - b on little-endian byte sequences of one length, modulo
\* 2^(8 * length)
RECURSIVE AddBytes(_, _, _)
AddBytes(a, b, carry) ==
  IF a = <<>> THEN <<>>
  ELSE <<(Head(a) + Head(b) + carry) % 256>>
       \o AddBytes(Tail(a), Tail(b), (Head(a) + Head(b) + carry) \div 256)

RECURSIVE SubBytes(_, _, _)
SubBytes(a, b, borrow) ==
  IF a = <<>> THEN <<>>
  ELSE <<(Head(a) - Head(b) - borrow + 256) % 256>>
       \o SubBytes(Tail(a), Tail(b),
                   IF Head(a) - Head(b) - borrow < 0 THEN 1 ELSE 0)

FixupExpected(pe, f) ==
  LET value == FixupWindow(pe, f)
  IN  CASE f.desc.operation = "AddVmLoaderSectionVirtualAddress" ->
             AddBytes(value, VirtualAddressBytes(pe.vm_loader_va, f.desc.size), 0)
        [] f.desc.operation = "AddVirtualizedCodeSectionVirtualAddress" ->
             AddBytes(value,
                      VirtualAddressBytes(pe.virtualized_code_va, f.desc.size), 0)
        [] f.desc.operation = "SubtractVmLoaderSectionVirtualAddress" ->
             SubBytes(value, VirtualAddressBytes(pe.vm_loader_va, f.desc.size), 0)

\* one pass of the loop writes the expected value into the window and
\* leaves every other byte as it is
FixupPassAsClaimed(pe, f) ==
  LET after == ApplyFixup(pe, f)
  IN  /\ ~ after.error
      /\ FixupWindow(after, f) = FixupExpected(pe, f)
      /\ \A t \in OffsetRelativeTo :
           /\ RegionOffsets(after, t) = RegionOffsets(pe, t)
           /\ \A o \in RegionOffsets(pe, t) :
                (t # f.desc.offset_type
                   \/ o < f.offset \/ o >= f.offset + f.desc.size)
                  => RegionByte(after, t, o) = RegionByte(pe, t, o)
      /\ \A b \in 1..Len(pe.reloc) : after.reloc[b].relocs = pe.reloc[b].relocs

\* a width other than 4 and 8, or an operation that is none of the three
IsUnsupported(f) ==
  \/ f.desc.size \notin {4, 8}
  \/ f.desc.operation \notin
       {"AddVmLoaderSectionVirtualAddress",
        "SubtractVmLoaderSectionVirtualAddress",
        "AddVirtualizedCodeSectionVirtualAddress"}

AllSupported(fx) == \A k \in 1..Len(fx) : ~ IsUnsupported(fx[k])

\* C14: a fixup of width 4 or 8 with one of the three operations replaces
\* the little-endian value v of its width at its offset inside its origin
\* (the file offset itself for Beginning) by v + VA modulo 2^w for
\* AddVmLoaderVA and AddVirtualizedCodeVA and by v - VA modulo 2^w for
\* SubtractVmLoaderVA, VA being the VirtualAddress of the section the
\* operation names, and changes no other byte; FixFinishedPe does so for
\* every fixup of its list in turn.
C14_FixupArithmetic ==
  [][(pc = "fix" /\ AllSupported(fixups)) =>
       /\ \A k \in 1..Len(fixups) :
            FixupPassAsClaimed(ApplyFixups(new_pe, SubSeq(fixups, 1, k - 1)),
                               fixups[k])
       /\ pc' = "done"
       /\ ImageBytes(new_pe') = ImageBytes(ApplyFixups(new_pe, fixups))]_vars

\* an 8-byte addition carried into the upper half, then a 4-byte subtraction
C14_Witness ==
  /\ pc = "done"
  /\ Len(fixups) = MaxFixups
  /\ fixups[1].desc = [offset_type |-> "Beginning",
                       operation |-> "AddVirtualizedCodeSectionVirtualAddress",
                       size |-> 8]
  /\ fixups[2].desc = [offset_type |-> "VmLoaderSection",
                       operation |-> "SubtractVmLoaderSectionVirtualAddress",
                       size |-> 4]
  /\ new_pe.image[DataDirectoryOffset(IMAGE_DIRECTORY_ENTRY_TLS)]
       = NatToW(5 * k4kPage - 1)
  /\ new_pe.image[DataDirectoryOffset(IMAGE_DIRECTORY_ENTRY_TLS) + 4] = WZero
  /\ new_pe.loader[InterpreterRelocationOffset]
       = WSub(<<Half - 1, Half - 1>>, NatToW(4 * k4kPage))

\* C15: a fixup whose operation is none of the three, or whose width is
\* neither 4 nor 8, makes FixFinishedPe throw: the run ends in an error and
\* no output image is returned, also when fixups before it were applied.
C15_UnsupportedFixupAborts ==
  [][(pc = "fix" /\ ~ AllSupported(fixups)) =>
       /\ pc' = "error"
       /\ new_pe' = NoPe]_vars

\* a supported fixup followed by one with an operation outside the
\* enumerators, and the run has ended without an image
C15_Witness ==
  /\ pc = "error"
  /\ new_pe = NoPe
  /\ Len(fixups) = MaxFixups
  /\ ~ IsUnsupported(fixups[1])
  /\ fixups[MaxFixups].desc.operation = OtherOperation

\* ------------------------------------------------------------------------
\* Claims on the per-instruction callback (Spec)
\* ------------------------------------------------------------------------
\* the instruction the callback is called with next
CallbackInstruction ==
  /\ pc = "decode"
  /\ CurrentDecode.ins.id # "INVALID"
  /\ ~ IsAddressWithinDataSectionOfCode(data_ranges_, CurrentDecode.address)

\* C16: a virtualizable instruction whose eflags are not 0 ends the run with
\* an error: no output image exists then or later, nothing is appended to
\* the sections of the context, .text is not patched, no fixup, relocation
\* offset, removal or log line is recorded for the instruction, and the PE
\* that was handed in stays as it was.
C16_EflagsAborts ==
  [][/\ pc = "error" => FALSE
     /\ (/\ CallbackInstruction
         /\ CurrentDecode.ins.virtualizable
         /\ CurrentDecode.ins.eflags # 0)
        => /\ pc' = "error"
           /\ new_pe' = NoPe
           /\ UNCHANGED <<contextVars, logVars, inputVars, peVars>>]_vars

\* the run has ended at a virtualizable instruction that changes eflags
C16_Witness ==
  /\ pc = "error"
  /\ new_pe = NoPe
  /\ DecodeAt(WToNat(code_), WToNat(address_)).ins.virtualizable
  /\ DecodeAt(WToNat(code_), WToNat(address_)).ins.eflags # 0
  /\ new_text_section = text_code

\* ------------------------------------------------------------------------
\* Claims on the section list of the output (SpecReloc)
\* ------------------------------------------------------------------------
SectionsAscending(sections) ==
  \A k \in 1..(Len(sections) - 1) :
    sections[k].VirtualAddress < sections[k + 1].VirtualAddress

\* C17 (as amended): the sections of the output are in ascending
\* VirtualAddress order; .reloc is the last of the sections taken over from
\* the input and is followed by exactly the VM loader section and the
\* virtualized-code section, which is the last section of the output.
C17_RelocBeforeAddedSections ==
  new_pe.built =>
    LET sections == new_pe.sections
        n == Len(sections)
    IN  /\ SectionsAscending(sections)
        /\ sections[n - 2].name = ".reloc"
        /\ sections[n - 1].name = VM_LOADER_SECTION_NAME
        /\ sections[n].name = VM_CODE_SECTION_NAME
        /\ \A k \in 1..n : sections[k].name = ".reloc" => k = n - 2

\* an output whose .reloc grew by blocks of both sections
C17_Witness ==
  /\ pc = "done"
  /\ new_pe.built
  /\ Len(new_pe.reloc) > Len(original_pe_relocs) + 1
  /\ new_pe.sections[Len(new_pe.sections)].VirtualAddress
       = WToNat(new_pe.virtualized_code_va)

\* C17 as stated: the sections of the output are in ascending VirtualAddress
\* order and .reloc is the last section of the output.
C17_AsStated ==
  new_pe.built =>
    /\ SectionsAscending(new_pe.sections)
    /\ new_pe.sections[Len(new_pe.sections)].name = ".reloc"

\* ------------------------------------------------------------------------
\* Claims on the removal of relocations (SpecRemove)
\* ------------------------------------------------------------------------
\* the rva the entry e of the block b of the table resolves to
ResolvedRvaOfEntry(table, b, e) ==
  WToNat(table[b].VirtualAddress) + table[b].relocs[e].offset

\* the table behind the step is the table before it with {ABSOLUTE, 0} in
\* the place of every entry that resolved to one of the rvas; headers,
\* numbers of blocks and of entries are the same
RemovedInPlace ==
  /\ Len(original_pe_relocs') = Len(original_pe_relocs)
  /\ \A b \in 1..Len(original_pe_relocs) :
       /\ original_pe_relocs'[b].VirtualAddress
            = original_pe_relocs[b].VirtualAddress
       /\ original_pe_relocs'[b].SizeOfBlock
            = original_pe_relocs[b].SizeOfBlock
       /\ original_pe_relocs'[b].at = original_pe_relocs[b].at
       /\ Len(original_pe_relocs'[b].relocs)
            = Len(original_pe_relocs[b].relocs)
       /\ \A e \in 1..Len(original_pe_relocs[b].relocs) :
            original_pe_relocs'[b].relocs[e] =
              IF ResolvedRvaOfEntry(original_pe_relocs, b, e)
                   \in Range(relocation_rvas_to_remove)
              THEN [type |-> "ABSOLUTE", offset |-> 0]
              ELSE original_pe_relocs[b].relocs[e]

\* no entry that is not padding resolves to one of the rvas
NoneResolvesToRemoved(table) ==
  \A b \in 1..Len(table) :
    \A e \in 1..Len(table[b].relocs) :
      table[b].relocs[e].type # "ABSOLUTE" =>
        ResolvedRvaOfEntry(table, b, e) \notin Range(relocation_rvas_to_remove)

\* C32: RemoveRelocations rewrites in place, as {ABSOLUTE, 0}, every entry
\* whose block va + offset is one of the given rvas, and leaves every other
\* entry, every block header and the number of entries as they are;
\* afterwards no entry that is not padding resolves to a removed rva.
C32_RemoveRelocationsInPlace ==
  /\ [][pc = "remove" => RemovedInPlace]_vars
  /\ [](pc = "assemble" => NoneResolvesToRemoved(original_pe_relocs))

\* the entry of rva TextVA + 1 was removed from a table of two blocks: the
\* first block is all padding, the second block has its entries
C32_Witness ==
  /\ pc = "assemble"
  /\ relocation_rvas_to_remove = <<TextVA + 1>>
  /\ Len(original_pe_relocs) = 2
  /\ original_pe_relocs[1].relocs
       = <<[type |-> "ABSOLUTE", offset |-> 0],
           [type |-> "ABSOLUTE", offset |-> 0]>>
  /\ original_pe_relocs[2].relocs[1].type # "ABSOLUTE"
  /\ original_pe_relocs[2].relocs[1].offset = 8

\* the elements of the list inside the instruction, in the list's order
RelocationsInWindow(address, size, list) ==
  SelectSeq(list, LAMBDA r : address <= r /\ r < address + size)

Occurrences(list, x) == Cardinality({k \in 1..Len(list) : list[k] = x})

\* instructions at the start of .text: every address and size up to 8
WithinSearchIsWindow ==
  \A o \in 0..12 : \A size \in 1..8 :
    GetRelocationsWithinInstruction(TextVA + o, size,
                                    original_pe_relocation_rvas)
      = RelocationsInWindow(TextVA + o, size, original_pe_relocation_rvas)

\* a virtualization appends the rvas inside its instruction to the list
QueuesWindow ==
  Len(virtualized_log') = Len(virtualized_log) + 1 =>
    LET v == virtualized_log'[Len(virtualized_log')]
    IN  relocation_rvas_to_remove'
          = relocation_rvas_to_remove
              \o RelocationsInWindow(v.address, v.size,
                                     original_pe_relocation_rvas)

\* a rollback takes one occurrence of each rva inside its instruction from
\* the list and leaves the other rvas and their order
UnqueuesWindow ==
  Len(reset_log') = Len(reset_log) + 1 =>
    LET r == reset_log'[Len(reset_log')]
        window == Range(RelocationsInWindow(r.address, r.size,
                                            original_pe_relocation_rvas))
    IN  /\ \A x \in Range(relocation_rvas_to_remove) :
             Occurrences(relocation_rvas_to_remove', x)
               = IF x \in window
                 THEN Occurrences(relocation_rvas_to_remove, x) - 1
                 ELSE Occurrences(relocation_rvas_to_remove, x)
        /\ Range(relocation_rvas_to_remove')
             \subseteq Range(relocation_rvas_to_remove)
        /\ SelectSeq(relocation_rvas_to_remove', LAMBDA x : x \notin window)
             = SelectSeq(relocation_rvas_to_remove,
                         LAMBDA x : x \notin window)

\* C34: on the sorted list of the relocation rvas,
\* GetRelocationsWithinInstruction returns the rvas r with
\* address <= r < address + size, ascending and nothing else; the
\* per-instruction callback queues these rvas when it virtualizes, and the
\* invalid-instruction callback un-queues these rvas.
C34_RelocationsWithinInstruction ==
  /\ [] WithinSearchIsWindow
  /\ [][QueuesWindow /\ UnqueuesWindow]_vars

\* two instructions that overlap had two relocations within each of them
\* queued, and the rollback of one of them took these two from the list
C34_Witness ==
  /\ Len(virtualized_log) = 2
  /\ Len(virtualized_log[1].relocs) = 2
  /\ \E k \in 1..Len(reset_log) :
       /\ Len(reset_log[k].relocs) = 2
       /\ reset_log[k].address = virtualized_log[2].address
  /\ Len(relocation_rvas_to_remove) = 2
  /\ pc = "remove"

StrictlyAscending(list) ==
  \A k \in 1..(Len(list) - 1) : list[k] < list[k + 1]

\* C35: when the assembly calls AddRelocations, the section offsets of the
\* VM-loader section and those of the virtualized-code section are both in
\* strictly ascending order, whatever virtualizations and rollbacks the run
\* had and whether the TLS directory was created or extended.
C35_OffsetListsAscending ==
  pc = "assemble" =>
    /\ StrictlyAscending(vm_section_offsets_to_add_to_relocation_table)
    /\ StrictlyAscending(
         virtualized_code_section_offsets_to_add_to_relocation_table)

\* two virtualizations and a rollback behind the interpreter's relocation,
\* and three offsets from the TLS callbacks
C35_Witness ==
  /\ pc = "assemble"
  /\ Len(vm_section_offsets_to_add_to_relocation_table) = 3
  /\ Len(virtualized_code_section_offsets_to_add_to_relocation_table) = 3
  /\ Len(virtualized_log) = 2
  /\ reset_log # <<>>

\* the fixups of 8 bytes on the VirtualAddress field of a relocation block
WideRelocFixups ==
  {k \in 1..Len(fixups) : /\ fixups[k].desc.offset_type = "RelocSection"
                          /\ fixups[k].desc.size = 8}

\* the fixups of 8 bytes on the VirtualAddress field of the TLS entry of the
\* data directory
WideTlsEntryFixups ==
  {k \in 1..Len(fixups) :
     /\ fixups[k].desc.offset_type = "Beginning"
     /\ fixups[k].desc.size = 8
     /\ fixups[k].offset = DataDirectoryOffset(IMAGE_DIRECTORY_ENTRY_TLS)}

\* the fixup pass moved the 32-bit field by the section's address and left
\* the 32-bit field behind it
WideFixupKeepsNeighbour ==
  (pc = "fix" /\ pc' = "done") =>
    /\ \A k \in WideRelocFixups :
         \A b \in 1..Len(new_pe.reloc) :
           new_pe.reloc[b].at = fixups[k].offset =>
             /\ new_pe'.reloc[b].SizeOfBlock = new_pe.reloc[b].SizeOfBlock
             /\ new_pe'.reloc[b].VirtualAddress
                  = WAdd(new_pe.reloc[b].VirtualAddress,
                         FixupVA(new_pe, fixups[k].desc.operation))
    /\ \A k \in WideTlsEntryFixups :
         /\ DirectorySize(new_pe'.image, IMAGE_DIRECTORY_ENTRY_TLS)
              = DirectorySize(new_pe.image, IMAGE_DIRECTORY_ENTRY_TLS)
         /\ DirectoryVirtualAddress(new_pe'.image, IMAGE_DIRECTORY_ENTRY_TLS)
              = WAdd(DirectoryVirtualAddress(new_pe.image,
                                             IMAGE_DIRECTORY_ENTRY_TLS),
                     FixupVA(new_pe, fixups[k].desc.operation))

\* C36: a fixup of 8 bytes on the VirtualAddress field of a relocation block
\* of the virtualized-code section, or on the VirtualAddress field of the
\* TLS entry of the data directory, changes these 32 bits only: SizeOfBlock
\* and the entry's Size, the upper halves of the two windows, are after the
\* fixup pass what they were before it.
C36_WideFixupKeepsNeighbour == [][WideFixupKeepsNeighbour]_vars

\* a 64-bit image whose TLS directory was created went through the fixup
\* pass with a fixup of 8 bytes on a relocation block and one on the TLS
\* entry
C36_Witness ==
  /\ pc = "done"
  /\ win64
  /\ WideRelocFixups # {}
  /\ WideTlsEntryFixups # {}
  /\ DirectorySize(new_pe.image, IMAGE_DIRECTORY_ENTRY_TLS)
       = NatToW(TlsDirectorySize)
  /\ \E b \in 1..Len(new_pe.reloc) :
       /\ new_pe.reloc[b].added
       /\ new_pe.reloc[b].VirtualAddress # reloc_section.blocks[b].VirtualAddress
       /\ new_pe.reloc[b].SizeOfBlock = reloc_section.blocks[b].SizeOfBlock

\* the callback is about to run for a virtualizable instruction that leaves
\* eflags alone and for which the virtualizer returns an empty buffer
AtEmptyVmCode ==
  /\ pc = "decode"
  /\ CurrentDecode.ins.id # "INVALID"
  /\ ~ IsAddressWithinDataSectionOfCode(data_ranges_, CurrentDecode.address)
  /\ IsVirtualizeable(CurrentDecode)
  /\ ~ ChangesEflags(CurrentDecode)
  /\ CurrentDecode.ins.vm_size = 0

\* C37: for a virtualizable instruction with an empty buffer of VM bytes the
\* per-instruction callback leaves the VM-loader section, the
\* virtualized-code section, the new .text, the fixup list, the two lists of
\* relocation offsets and the list of rvas to remove as they are, and
\* records no virtualization.
C37_EmptyVmCodeChangesNothing ==
  [][AtEmptyVmCode =>
       /\ UNCHANGED <<vm_loader_section, virtualized_code_section,
                      new_text_section, fixups,
                      vm_section_offsets_to_add_to_relocation_table,
                      virtualized_code_section_offsets_to_add_to_relocation_table,
                      relocation_rvas_to_remove>>
       /\ UNCHANGED virtualized_log]_vars

\* the run went over an instruction without VM code that has relocations
\* within it, virtualized the instruction behind it, and queued nothing
C37_Witness ==
  /\ pc = "remove"
  /\ program[1].virtualizable
  /\ program[1].vm_size = 0
  /\ Len(virtualized_log) = 1
  /\ virtualized_log[1].address = TextVA + 5
  /\ Len(RelocationsInWindow(TextVA, 5, original_pe_relocation_rvas)) = 3
  /\ relocation_rvas_to_remove = <<>>
  /\ new_text_section[1] = text_code[1]

\* ------------------------------------------------------------------------
\* Claims on the work list
\* ------------------------------------------------------------------------
\* C18: every disassembly point on the work list has an rva inside .text
\* and a code pointer that designates the byte at that rva in the .text
\* buffer.
C18_PointsInsideText ==
  \A k \in 1..Len(disassembly_points_) :
    /\ IsRvaWithinTextW(disassembly_points_[k].rva)
    /\ disassembly_points_[k].code
         = WSub(disassembly_points_[k].rva, NatToW(TextVA))

\* a call or a jump with exactly one operand, an immediate
IsDirectBranch(d) ==
  /\ d.ins.id \in {"CALL", "LCALL", "JMP", "LJMP", "JCC"}
  /\ Len(d.ins.ops) = 1
  /\ d.ins.ops[1].type = "IMM"

\* the point of an immediate target: its rva, and the code pointer moved by
\* the distance between the target and the instruction
DirectBranchPoint(d) ==
  [rva  |-> d.ins.ops[1].imm,
   code |-> WAdd(NatToW(d.code), WSub(d.ins.ops[1].imm, NatToW(d.address)))]

DirectBranchStep ==
  (pc = "decode" /\ IsDirectBranch(CurrentDecode)) =>
    LET d == CurrentDecode
    IN  /\ DirectBranchPoint(d).rva \in disassembly_points_cache_'
        /\ disassembly_points_' =
             IF DirectBranchPoint(d).rva \in disassembly_points_cache_
             THEN disassembly_points_
             ELSE Append(disassembly_points_, DirectBranchPoint(d))
        /\ pc' = IF d.ins.id \in {"JMP", "LJMP"} THEN "pop" ELSE "decode"
        /\ address_' = NatToW(d.address + d.ins.size)

\* C25: for a call or a jump with exactly one operand, an immediate, the
\* engine enqueues the target (unless the cache holds it) and ends the
\* stream if and only if the instruction is JMP or LJMP; behind a call or a
\* conditional jump it goes on with the next instruction.
C25_DirectBranch == [][DirectBranchStep]_vars

\* a conditional jump at offset 8 to TextVA + 24 was decoded: the target is
\* on the work list and the stream goes on behind the jump
C25_Witness ==
  /\ program[9].id = "JCC"
  /\ pc = "decode"
  /\ address_ = NatToW(TextVA + 8 + 5)
  /\ disassembly_points_
       = <<[rva |-> NatToW(TextVA + 24), code |-> NatToW(24)]>>

\* a call or a jump that has no single immediate operand and is no jump
\* table
IsOtherBranch(d) ==
  /\ d.ins.id \in {"CALL", "LCALL", "JMP", "LJMP", "JCC"}
  /\ ~ IsDirectBranch(d)
  /\ ~ (Len(d.ins.ops) = 1 /\ IsJumpTable(d))

OtherBranchEnqueuesNothing ==
  /\ disassembly_points_' = disassembly_points_
  /\ disassembly_points_cache_' = disassembly_points_cache_
  /\ data_ranges_' = data_ranges_

\* C26: a call or a jump with one operand that is neither an immediate nor
\* a jump table enqueues nothing and ends the stream if and only if it is
\* JMP or LJMP; a call or a jump with another number of operands enqueues
\* nothing and always ends the stream.
C26_OtherBranch ==
  [][(pc = "decode" /\ IsOtherBranch(CurrentDecode)) =>
       /\ OtherBranchEnqueuesNothing
       /\ pc' = IF \/ Len(CurrentDecode.ins.ops) # 1
                   \/ CurrentDecode.ins.id \in {"JMP", "LJMP"}
                THEN "pop" ELSE "decode"]_vars

\* the far call at offset 8 was decoded: nothing is enqueued and the stream
\* is over
C26_Witness ==
  /\ program[9].id = "LCALL"
  /\ Len(program[9].ops) = 2
  /\ pc = "pop"
  /\ address_ = NatToW(TextVA + 8 + 7)
  /\ disassembly_points_ = <<>>

\* C26 as stated: whatever the number of operands, such a call or jump
\* enqueues nothing, ends the stream if it is a guaranteed jump and goes on
\* with the next instruction otherwise.
C26_AsStated ==
  [][(pc = "decode" /\ IsOtherBranch(CurrentDecode)) =>
       /\ OtherBranchEnqueuesNothing
       /\ pc' = IF CurrentDecode.ins.id \in {"JMP", "LJMP"}
                THEN "pop" ELSE "decode"]_vars

\* MOV with two operands, the second one an immediate
IsMovImmediate(d) ==
  /\ d.ins.id = "MOV"
  /\ Len(d.ins.ops) = 2
  /\ d.ins.ops[2].type = "IMM"

\* the rva the immediate stands for: the value itself on x64, the value
\* without the image base on x86
MovImmediateRva(d) ==
  IF win64 THEN d.ins.ops[2].imm ELSE WSub(d.ins.ops[2].imm, ImageBase)

MovImmediatePoint(d) ==
  [rva  |-> MovImmediateRva(d),
   code |-> WSub(MovImmediateRva(d), NatToW(TextVA))]

\* the rva passes the function-prologue test
MovTargetIsFunction(d) ==
  IsFunction(WToNat(MovImmediatePoint(d).code),
             WToNat(MovImmediatePoint(d).rva)) = "yes"

\* the step of a MOV of an immediate that enqueues the target if enqueue
\* holds, enqueues nothing otherwise, and goes on with the next instruction
MovImmediateStep(d, enqueue) ==
  /\ disassembly_points_' =
       IF enqueue /\ MovImmediatePoint(d).rva \notin disassembly_points_cache_
       THEN Append(disassembly_points_, MovImmediatePoint(d))
       ELSE disassembly_points_
  /\ disassembly_points_cache_' =
       IF enqueue
       THEN disassembly_points_cache_ \cup {MovImmediatePoint(d).rva}
       ELSE disassembly_points_cache_
  /\ pc' = "decode"
  /\ address_' = NatToW(d.address + d.ins.size)

\* C27: for a MOV with two operands whose first operand is a memory operand
\* and whose second operand is an immediate, the engine enqueues the target
\* if the rva of the immediate lies inside .text and passes the
\* function-prologue test; in every other case of a MOV of an immediate,
\* that with a register as destination included, it enqueues nothing. It
\* goes on with the next instruction in all these cases.
C27_MovImmediate ==
  [][(pc = "decode" /\ IsMovImmediate(CurrentDecode)) =>
       MovImmediateStep(CurrentDecode,
                        /\ CurrentDecode.ins.ops[1].type = "MEM"
                        /\ IsRvaWithinTextW(MovImmediateRva(CurrentDecode))
                        /\ MovTargetIsFunction(CurrentDecode))]_vars

\* MOV [ebx+8], imm at offset 0 with the prologue as target was decoded: the
\* target is on the work list and the stream goes on
C27_Witness ==
  /\ program[1].id = "MOV"
  /\ program[1].ops[1].type = "MEM"
  /\ program[1].ops[1].base = "EBX"
  /\ pc = "decode"
  /\ address_ = NatToW(TextVA + 7)
  /\ disassembly_points_
       = <<[rva  |-> NatToW(TextVA + MovPrologueOffset),
            code |-> NatToW(MovPrologueOffset)]>>

\* C27 as stated: with a register or a memory operand as destination, the
\* target is enqueued if the rva of the immediate lies inside some section
\* and passes the function-prologue test, and nothing is enqueued in every
\* other case of a MOV of an immediate.
C27_AsStated ==
  [][(pc = "decode" /\ IsMovImmediate(CurrentDecode)) =>
       MovImmediateStep(CurrentDecode,
                        /\ CurrentDecode.ins.ops[1].type \in {"REG", "MEM"}
                        /\ ~ FromRvaIsNull(MovImmediateRva(CurrentDecode))
                        /\ MovTargetIsFunction(CurrentDecode))]_vars

\* ------------------------------------------------------------------------
\* Claims on the look-aheads (SpecLook)
\* ------------------------------------------------------------------------
\* the engine stands on MOV reg, [base + index*4 + disp]
IsMovRegFromTable(d) ==
  /\ d.ins.id = "MOV"
  /\ Len(d.ins.ops) = 2
  /\ d.ins.ops[1].type = "REG"
  /\ d.ins.ops[2].type = "MEM"
  /\ d.ins.ops[2].scale = 4

\* the instruction right behind d is ADD reg, regB and the one behind that
\* is JMP reg
FollowedByAddJmp(d, reg) ==
  LET o1 == d.code + d.ins.size
      o2 == o1 + program[o1 + 1].size
  IN  /\ program[o1 + 1].id = "ADD"
      /\ Len(program[o1 + 1].ops) = 2
      /\ program[o1 + 1].ops[1] = RegOp(reg)
      /\ program[o1 + 1].ops[2].type = "REG"
      /\ program[o2 + 1].id = "JMP"
      /\ Len(program[o2 + 1].ops) = 1
      /\ program[o2 + 1].ops[1] = RegOp(reg)

\* the step took the instruction for a jump table: the stream ends with it
\* and its table is a data range
TakenAsJumpTable ==
  /\ pc' = "pop"
  /\ Len(data_ranges_') = Len(data_ranges_) + 1

\* C28: on x64 the jump-table heuristic accepts MOV reg, [base + index*4 +
\* disp] only when ADD regA, regB and JMP regA stand right behind it, regA
\* being the destination register of the MOV; with another register in the
\* ADD and the JMP the sequence is no jump table.
C28_JumpTableX64OfMovDestination ==
  [][(/\ win64 /\ pc = "decode"
      /\ IsMovRegFromTable(CurrentDecode)
      /\ TakenAsJumpTable)
     => FollowedByAddJmp(CurrentDecode, CurrentDecode.ins.ops[1].reg)]_vars

\* the instruction makes a heuristic decode ahead: the jump-table heuristic
\* of x64 behind MOV reg, [.. + index*4 + ..], the function-prologue test
\* at the target of a PUSH of an address inside .text
LooksAhead(d) ==
  \/ win64 /\ IsMovRegFromTable(d)
  \/ /\ d.ins.id = "PUSH"
     /\ Len(d.ins.ops) = 1
     /\ d.ins.ops[1].type = "IMM"
     /\ IsRvaWithinTextW(IF win64 THEN d.ins.ops[1].imm
                         ELSE WSub(d.ins.ops[1].imm, ImageBase))

\* the heuristic of the instruction answered yes
LookAheadAccepts(d) ==
  IF d.ins.id = "PUSH"
  THEN LET rva == IF win64 THEN d.ins.ops[1].imm
                  ELSE WSub(d.ins.ops[1].imm, ImageBase)
       IN  IsFunction(WToNat(rva) - TextVA, WToNat(rva)) = "yes"
  ELSE IsJumpTable(d)

\* C29: the look-ahead of the jump-table heuristic and of the
\* function-prologue test does not consume the stream: behind the step the
\* code pointer and the address stand right behind the instruction the
\* heuristic was asked about, whatever it answered, and the work list, the
\* dedup cache and the data ranges are the ones of before if it answered
\* no.
C29_LookAheadKeepsStream ==
  [][(pc = "decode" /\ LooksAhead(CurrentDecode)) =>
       /\ code_' = NatToW(CurrentDecode.code + CurrentDecode.ins.size)
       /\ address_' = NatToW(CurrentDecode.address + CurrentDecode.ins.size)
       /\ ~ LookAheadAccepts(CurrentDecode) =>
            /\ disassembly_points_' = disassembly_points_
            /\ disassembly_points_cache_' = disassembly_points_cache_
            /\ data_ranges_' = data_ranges_]_vars

\* the jump-table heuristic has decoded ADD rax, rcx and CALL rax behind
\* the MOV and has answered no: the stream stands right behind the MOV
C29_Witness ==
  /\ win64
  /\ program[1].id = "MOV"
  /\ program[8].id = "ADD"
  /\ program[8].ops[2].type = "REG"
  /\ program[11].id = "CALL"
  /\ pc = "decode"
  /\ code_ = NatToW(7)
  /\ address_ = NatToW(TextVA + 7)
  /\ disassembly_points_ = <<>>
  /\ data_ranges_ = <<>>

\* ------------------------------------------------------------------------
\* Claims on the TLS callbacks of the output (SpecTls)
\* ------------------------------------------------------------------------
\* the finished output's TLS directory lies in the virtualized-code section:
\* the source PE had none
TlsDirectoryCreated ==
  /\ pc = "done"
  /\ WLe(new_pe.virtualized_code_va,
         DirectoryVirtualAddress(new_pe.image, IMAGE_DIRECTORY_ENTRY_TLS))

\* the source PE had a TLS directory, which the output keeps in .rdata
TlsDirectoryKept ==
  /\ pc = "done"
  /\ DirectoryVirtualAddress(new_pe.image, IMAGE_DIRECTORY_ENTRY_TLS)
       = NatToW(TlsDirectoryRva)

\* what the pointer at a section offset of the virtualized-code section
\* resolves to once the image is loaded at any base: the loader adds
\* load base - OptionalHeader.ImageBase to a slot that has a relocation
\* entry, so the slot designates the rva slot - ImageBase (<<-1, -1>>: the
\* slot has no entry, or the value is no rva)
NoRva == <<0 - 1, 0 - 1>>

ResolvedRva(value, slot_rva) ==
  LET rva == QSubQ(value, ReadPointer(new_pe.image, ImageBaseOffset))
  IN  IF rva[2] = WZero /\ HasRelocationEntry(new_pe.reloc, slot_rva)
      THEN rva[1] ELSE NoRva

VirtualizedCodeRva(offset) == WToNat(new_pe.virtualized_code_va) + offset

\* the pointer at an rva of the virtualized-code section, resolved
ResolvedAt(rva) ==
  ResolvedRva(ReadPointer(new_pe.vcode,
                          WToNat(WSub(rva, new_pe.virtualized_code_va))),
              WToNat(rva))

\* where the output's callback list is once the image is loaded
CreatedCallbackListRva ==
  ResolvedAt(WAdd(DirectoryVirtualAddress(new_pe.image,
                                          IMAGE_DIRECTORY_ENTRY_TLS),
                  NatToW(AddressOfCallBacksOffset)))

\* C19: for a source PE without a TLS directory, whatever its image base,
\* the output's TLS directory entry has the size of IMAGE_TLS_DIRECTORY, and
\* once the image is loaded AddressOfCallBacks designates a list in the
\* virtualized-code section whose first entry designates the VM loader
\* section's VirtualAddress + the offset of TlsCallback and whose second
\* entry is 0.
C19_CreatedTlsDirectory ==
  TlsDirectoryCreated =>
    /\ DirectorySize(new_pe.image, IMAGE_DIRECTORY_ENTRY_TLS)
         = NatToW(TlsDirectorySize)
    /\ CreatedCallbackListRva # NoRva
    /\ WLe(new_pe.virtualized_code_va, CreatedCallbackListRva)
    /\ ResolvedAt(CreatedCallbackListRva)
         = WAdd(new_pe.vm_loader_va, NatToW(interpreter_tls_callback_offset))
    /\ ReadPointer(new_pe.vcode,
                   WToNat(WSub(CreatedCallbackListRva,
                               new_pe.virtualized_code_va)) + WordSize)
         = QZero

\* the source PE's image base, TLS directory and callback list, as the
\* setup finds them
SourceImageBase == ReadPointer(original_pe_image, ImageBaseOffset)

SourceTlsDirectoryOffset ==
  RvaToFileOffset(WToNat(DirectoryVirtualAddress(original_pe_image,
                                                 IMAGE_DIRECTORY_ENTRY_TLS)))

SourceAddressOfCallBacks ==
  ReadPointer(original_pe_image,
              SourceTlsDirectoryOffset + AddressOfCallBacksOffset)

SourceCallbackSlot(i) ==
  ReadPointer(original_pe_image,
              RvaToFileOffset(WToNat(QSubQ(SourceAddressOfCallBacks,
                                           SourceImageBase)[1]))
                + i * WordSize)

\* the number of callbacks in front of the first 0
SourceCallbackCount ==
  IF SourceAddressOfCallBacks = QZero THEN 0
  ELSE CHOOSE m \in 0..(MaxCallbacks + 1) :
         /\ SourceCallbackSlot(m) = QZero
         /\ \A i \in 0..(m - 1) : SourceCallbackSlot(i) # QZero

\* slot i of the list the setup appends to the virtualized-code section
NewCallbackSlot(i) ==
  ReadPointer(virtualized_code_section'.cells,
              virtualized_code_section.size + i * WordSize)

AddedFixups == SubSeq(fixups', Len(fixups) + 1, Len(fixups'))

AddedFixupsOf(offset_type) ==
  SelectSeq(AddedFixups, LAMBDA f : f.desc.offset_type = offset_type)

\* the list has the source's callbacks in their order, one more entry and
\* five zero slots; the non-zero slots, and only they, are relocation
\* offsets; one fixup adds the VM loader VA to the entry behind the source's
\* callbacks; one Beginning fixup adds the virtualized-code VA to
\* AddressOfCallBacks of the source's directory
ExtendedListAsRecorded ==
  LET m == SourceCallbackCount
      list_offset == virtualized_code_section.size
  IN  /\ \A i \in 0..(m - 1) : NewCallbackSlot(i) = SourceCallbackSlot(i)
      /\ NewCallbackSlot(m) # QZero
      /\ \A i \in (m + 1)..(m + 5) : NewCallbackSlot(i) = QZero
      /\ virtualized_code_section'.size = list_offset + (m + 6) * WordSize
      /\ virtualized_code_section_offsets_to_add_to_relocation_table' =
           virtualized_code_section_offsets_to_add_to_relocation_table
           \o [i \in 1..(m + 1) |-> list_offset + (i - 1) * WordSize]
      /\ AddedFixupsOf("VirtualizedCodeSection") =
           <<[offset |-> list_offset + m * WordSize,
              desc |-> [offset_type |-> "VirtualizedCodeSection",
                        operation |-> "AddVmLoaderSectionVirtualAddress",
                        size |-> WordSize]]>>
      /\ AddedFixupsOf("Beginning") =
           <<[offset |-> SourceTlsDirectoryOffset + AddressOfCallBacksOffset,
              desc |-> [offset_type |-> "Beginning",
                        operation |->
                          "AddVirtualizedCodeSectionVirtualAddress",
                        size |-> WordSize]]>>

\* the new entry is stored as the default image base + the offset of
\* TlsCallback, and AddressOfCallBacks as the default image base + the
\* offset of the new list
ExtendedListStored ==
  /\ NewCallbackSlot(SourceCallbackCount)
       = QAdd(DEFAULT_PE_BASE_ADDRESS, NatToW(interpreter_tls_callback_offset))
  /\ ReadPointer(original_pe_image',
                 SourceTlsDirectoryOffset + AddressOfCallBacksOffset)
       = QAdd(DEFAULT_PE_BASE_ADDRESS, NatToW(virtualized_code_section.size))

SetupWithTlsDirectory ==
  /\ pc = "setup"
  /\ DirectorySize(original_pe_image, IMAGE_DIRECTORY_ENTRY_TLS) # WZero

\* C20: for a source PE with a TLS directory the list written to the
\* virtualized-code section is the source's callbacks in their order (up to
\* the first 0), then the entry of the interpreter's TlsCallback, then five
\* zero slots; exactly the non-zero slots are recorded as relocation
\* offsets, exactly one fixup (AddVmLoaderVA) is on the interpreter's slot,
\* and AddressOfCallBacks of the source's directory is redirected to the new
\* list with a Beginning fixup that adds the virtualized-code VA.
C20_ExtendedCallbackList ==
  [][SetupWithTlsDirectory =>
       ExtendedListAsRecorded /\ ExtendedListStored]_vars

\* the setup has extended a list of MaxCallbacks callbacks
C20_Witness ==
  /\ pc = "pop"
  /\ TlsDirectoryRva = WToNat(DirectoryVirtualAddress(
                                original_pe_image, IMAGE_DIRECTORY_ENTRY_TLS))
  /\ virtualized_code_section_offsets_to_add_to_relocation_table
       = [i \in 1..(MaxCallbacks + 1) |-> (i - 1) * WordSize]
  /\ ReadPointer(virtualized_code_section.cells, 0)
       = QAdd(ReadPointer(original_pe_image, ImageBaseOffset),
              NatToW(TextVA + 8))
  /\ ReadPointer(virtualized_code_section.cells, MaxCallbacks * WordSize)
       = QAdd(DEFAULT_PE_BASE_ADDRESS, NatToW(interpreter_tls_callback_offset))
  /\ \E k \in 1..Len(fixups) : fixups[k].desc.offset_type = "Beginning"

====
